---------------------------- MODULE Spec2Model ----------------------------
(***************************************************************************)
(* Cash-flow plugin: detection of recurring transactions (RECURRING_SQL,   *)
(* SUGGESTION_SQL), the mapping of the detected rows to patterns           *)
(* (loadData), the day-by-day balance projection (generateProjections)     *)
(* and the hide / unhide / horizon handlers of CashflowView.svelte.        *)
(*                                                                         *)
(* Conventions of the model                                                *)
(*  - A JavaScript Date is an instant, counted in hours since the epoch.   *)
(*    The runtime's timezone is a fixed offset (hours east of UTC)    ;     *)
(*    daylight-saving changes are not modelled.                            *)
(*  - A date string "YYYY-MM-DD" is the number of its day since the epoch; *)
(*    string order and equality are integer order and equality.            *)
(*  - Money is counted in mills (1/1000 of a dollar): 1000.00 is 1000000.  *)
(*    Arithmetic is exact decimal arithmetic; binary floating-point error  *)
(*    is not modelled.                                                     *)
(***************************************************************************)
EXTENDS Integers, Sequences, FiniteSets, TLC

VARIABLES
  tz,                    \* timezone offset of the runtime, hours east of UTC
  today,                 \* the local calendar day the system clock shows
  transactions,          \* table transactions
  dbBalance,             \* SUM(balance) FROM sys_accounts, in mills
  dbHidden,              \* table sys_plugin_treeline_cashflow_hidden (the keys)
  dbSettings,            \* the plugin's persisted settings
  recurringTransactions, \* $state, line 32
  hiddenKeys,            \* $state, line 33
  currentBalance,        \* $state, line 34
  projections,           \* $state, line 35
  isLoading,             \* $state, line 36
  horizonDays,           \* $state, line 37
  dangerThreshold,       \* $state, line 38
  showHidden,            \* $state, line 40
  lastToast,             \* the last sdk.toast call: "none", "info" or "error"
  mountPc,               \* where onMount stands
  loads,                 \* the loadData calls in flight
  ops,                   \* the hideTransaction / unhideTransaction calls in flight
  cursorIndex,           \* the row of the list the cursor is on
  items,                 \* the scheduled items of the planner view
  dbItems,               \* table sys_plugin_treeline_cashflow_items
  saving,                \* the saveNewItem call in flight
  lastRun,               \* what the last run of generateProjections read
  lastOp,                \* the last handler step taken, and what it saw
  detected,              \* the rows the last detection query returned
  probe,                 \* the last application of a function of the view
  newest                 \* what the most recently called loadData has read

vars == << tz, today, transactions, dbBalance, dbHidden, dbSettings,
           recurringTransactions, hiddenKeys, currentBalance, projections,
           isLoading, horizonDays, dangerThreshold, showHidden, lastToast,
           mountPc, cursorIndex, loads, ops, lastRun, lastOp, detected, probe, newest,
           items, dbItems, saving >>

---------------------------------------------------------------------------
(* Generic helpers.                                                        *)

RECURSIVE SumSeq(_)
SumSeq(s) == IF s = << >> THEN 0 ELSE Head(s) + SumSeq(Tail(s))

Range(s) == { s[i] : i \in 1..Len(s) }

Min(S) == CHOOSE x \in S : \A y \in S : x <= y

---------------------------------------------------------------------------
(* JavaScript Date, in hours since the epoch.                              *)

\* new Date("YYYY-MM-DD"): a date-only string is read as UTC midnight.
ParseDate(dateStr) == 24 * dateStr

\* d.toISOString().split('T')[0]: the UTC calendar day of the instant.
ToISODate(inst) == inst \div 24

\* The local calendar day of an instant, in the timezone of offset zone.
LocalDay(inst, zone) == (inst + zone) \div 24

\* d.setHours(0, 0, 0, 0): local midnight of the instant's local day.
SetHoursZero(inst, zone) == 24 * LocalDay(inst, zone) - zone

\* d.setDate(d.getDate() + n): n local days later, same local time of day.
AddDays(inst, n) == inst + 24 * n

\* new Date() followed by setHours(0, 0, 0, 0).
TodayMidnight(day, zone) == 24 * day - zone

---------------------------------------------------------------------------
(* Money.                                                                  *)

\* Math.round(x * 100) / 100 on a value in mills: the nearest cent, a half
\* rounding towards +infinity (Math.round(-0.5) is -0).
RoundCents(x) == 10 * ((x + 5) \div 10)

---------------------------------------------------------------------------
(* The storage engine's primitives used by the detection queries.          *)

\* The descriptions the modelled ledgers draw from.  Null stands for SQL
\* NULL, "" for the empty string.
Null == "<null>"

\* UPPER(description).
Upper(d) ==
  CASE d = "Netflix"     -> "NETFLIX"
    [] d = "netflix.com" -> "NETFLIX.COM"
    [] d = "Payroll"     -> "PAYROLL"
    [] d = "Rent"        -> "RENT"
    [] OTHER             -> d

\* jaro_winkler_similarity(a, b), in thousandths.  The values are those of
\* the Jaro-Winkler measure (prefix scale 0.1) on the modelled descriptions.
JaroWinklerSimilarity(a, b) ==
  IF a = b THEN 1000
  ELSE LET p == {a, b} IN
    CASE p = {"NETFLIX", "NETFLIX.COM"} -> 927
      [] p = {"NETFLIX", "RENT"}        -> 615
      [] p = {"NETFLIX.COM", "RENT"}    -> 563
      [] p = {"NETFLIX", "PAYROLL"}     -> 429
      [] p = {"NETFLIX.COM", "PAYROLL"} -> 411
      [] OTHER                          -> 0

\* The NULL of a numeric column.
NullNumber == -999999999

\* ROUND(amount, 2) on a value in mills: the nearest cent, a half rounding
\* away from zero; ROUND(NULL, 2) is NULL.
RoundSql(x) ==
  IF x = NullNumber THEN NullNumber
  ELSE IF x >= 0 THEN 10 * ((x + 5) \div 10) ELSE - (10 * ((5 - x) \div 10))

\* DATEDIFF('day', a, b).
DateDiff(a, b) == b - a

---------------------------------------------------------------------------
(* RECURRING_SQL and SUGGESTION_SQL.  A transaction is a record             *)
(* [description, amount, transaction_date]; a table is the sequence of its *)
(* rows in scan order.                                                     *)

\* CTE base_transactions.
BaseTransactions(tx) ==
  LET kept == SelectSeq(tx, LAMBDA r : r.description # Null /\ r.description # "")
  IN  [i \in 1..Len(kept) |->
         [norm_amount      |-> RoundSql(kept[i].amount),
          upper_desc       |-> Upper(kept[i].description),
          description      |-> kept[i].description,
          amount           |-> kept[i].amount,
          transaction_date |-> kept[i].transaction_date]]

NormAmounts(base) == { base[i].norm_amount : i \in 1..Len(base) }

\* The rows DISTINCT ON (norm_amount) ... ORDER BY norm_amount,
\* transaction_date ASC may keep for one norm_amount: those of the earliest
\* date.  The query states no order among rows of the same date.
EarliestOf(base, a) ==
  LET bucket == { i \in 1..Len(base) : base[i].norm_amount = a }
      first  == Min({ base[i].transaction_date : i \in bucket })
  IN  { i \in bucket : base[i].transaction_date = first }

\* CTE canonical_merchants: every result the engine may return, each a
\* function from norm_amount to canonical_desc.
CanonicalMerchants(base) ==
  { c \in [NormAmounts(base) -> { base[i].upper_desc : i \in 1..Len(base) }] :
      \A a \in NormAmounts(base) :
        \E i \in EarliestOf(base, a) : c[a] = base[i].upper_desc }

\* A CASE that merges at a similarity above 0.6.
MerchantGroupLoose(upper_desc, canonical_desc) ==
  IF JaroWinklerSimilarity(upper_desc, canonical_desc) > 600
  THEN canonical_desc
  ELSE upper_desc

\* The CASE of CTE grouped_transactions.
MerchantGroup(upper_desc, canonical_desc) ==
  IF JaroWinklerSimilarity(upper_desc, canonical_desc) > 700
  THEN canonical_desc
  ELSE upper_desc

\* CTE grouped_transactions.  The join condition b.norm_amount =
\* c.norm_amount is not true of a NULL norm_amount: the row has no canonical
\* description, the similarity is NULL and the CASE takes its ELSE branch.
GroupedTransactions(base, canon) ==
  [i \in 1..Len(base) |->
     [norm_amount      |-> base[i].norm_amount,
      description      |-> base[i].description,
      amount           |-> base[i].amount,
      transaction_date |-> base[i].transaction_date,
      merchant_group   |-> IF base[i].norm_amount = NullNumber
                           THEN base[i].upper_desc
                           ELSE MerchantGroup(base[i].upper_desc,
                                              canon[base[i].norm_amount])]]

\* The partitions of the window: PARTITION BY merchant_group, norm_amount.
Partitions(g) == { << g[i].merchant_group, g[i].norm_amount >> : i \in 1..Len(g) }

Members(g, part) ==
  { i \in 1..Len(g) : << g[i].merchant_group, g[i].norm_amount >> = part }

\* ORDER BY transaction_date within a partition; rows of the same date are
\* taken in scan order.
RECURSIVE OrderByDate(_, _)
OrderByDate(g, S) ==
  IF S = {} THEN << >>
  ELSE LET i == CHOOSE x \in S : \A y \in S :
                  \/ g[x].transaction_date < g[y].transaction_date
                  \/ g[x].transaction_date = g[y].transaction_date /\ x <= y
       IN  << i >> \o OrderByDate(g, S \ {i})

\* CTEs merchant_transactions and merchant_intervals for one partition: the
\* rows whose LAG(transaction_date) is not NULL, with their interval_days.
MerchantIntervals(g, part) ==
  LET o == OrderByDate(g, Members(g, part))
  IN  [k \in 1..(Len(o) - 1) |->
         [merchant         |-> g[o[k + 1]].description,
          amount           |-> g[o[k + 1]].amount,
          transaction_date |-> g[o[k + 1]].transaction_date,
          interval_days    |-> DateDiff(g[o[k]].transaction_date,
                                        g[o[k + 1]].transaction_date)]]

Max(S) == CHOOSE x \in S : \A y \in S : x >= y

\* The aggregates of CTE merchant_stats over one group of merchant_intervals.
\* AVG skips NULL amounts; the amounts of a group are all NULL or none is, and
\* the NULL average, which loadData turns into 0, is kept as the sum 0.
\* AVG(x) is kept as the exact fraction sum / cnt; STDDEV is the sample
\* standard deviation, kept through sum and sum of squares.
GroupStats(g, part) ==
  LET mi == MerchantIntervals(g, part)
  IN  [description      |-> mi[1].merchant,
       merchant_key     |-> part[1],
       norm_amount      |-> part[2],
       cnt              |-> Len(mi),
       sum_amount       |-> SumSeq([k \in 1..Len(mi) |->
                                      IF mi[k].amount = NullNumber THEN 0
                                      ELSE mi[k].amount]),
       occurrence_count |-> Len(mi) + 1,
       sum_interval     |-> SumSeq([k \in 1..Len(mi) |-> mi[k].interval_days]),
       sumsq_interval   |-> SumSeq([k \in 1..Len(mi) |->
                                      mi[k].interval_days * mi[k].interval_days]),
       last_date        |-> Max({ mi[k].transaction_date : k \in 1..Len(mi) }),
       first_row        |-> Min(Members(g, part))]

\* A range without its lower end.
AvgIntervalAtMost(s) == s.sum_interval <= 400 * s.cnt

\* AVG(mi.interval_days) BETWEEN 5 AND 400.
AvgIntervalInRange(s) ==
  5 * s.cnt <= s.sum_interval /\ s.sum_interval <= 400 * s.cnt

\* A filter on the population standard deviation that accepts a deviation
\* of exactly half the average.
StddevAtMostHalf(s) ==
  /\ s.cnt >= 2
  /\ 4 * (s.cnt * s.sumsq_interval - s.sum_interval * s.sum_interval)
       <= s.sum_interval * s.sum_interval

\* STDDEV(mi.interval_days) < AVG(mi.interval_days) * 0.5.  The sample
\* standard deviation of one value is NULL, and the comparison is then not
\* true.  For cnt >= 2 and a positive average the comparison is that of the
\* squares: (cnt*sumsq - sum^2) / (cnt*(cnt-1)) < sum^2 / (4*cnt^2).
StddevConsistent(s) ==
  /\ s.cnt >= 2
  /\ s.sum_interval > 0
  /\ 4 * s.cnt * (s.cnt * s.sumsq_interval - s.sum_interval * s.sum_interval)
       < (s.cnt - 1) * s.sum_interval * s.sum_interval

\* HAVING of RECURRING_SQL.
RecurringHaving(s) ==
  /\ s.cnt >= 2
  /\ AvgIntervalInRange(s)
  /\ StddevConsistent(s)

\* HAVING of SUGGESTION_SQL.
SuggestionHaving(s) ==
  /\ s.cnt >= 1
  /\ AvgIntervalInRange(s)

\* Groups in which a partition of one row stands as a group of one interval
\* of 30 days.
StatsGroupsLoneRows(g) ==
  { GroupStats(g, part) : part \in { q \in Partitions(g) : Cardinality(Members(g, q)) >= 2 } }
  \cup
  { [description      |-> g[i].description,
     merchant_key     |-> g[i].merchant_group,
     norm_amount      |-> g[i].norm_amount,
     cnt              |-> 1,
     sum_amount       |-> g[i].amount,
     occurrence_count |-> 1,
     sum_interval     |-> 30,
     sumsq_interval   |-> 900,
     last_date        |-> g[i].transaction_date,
     first_row        |-> i] :
      i \in { j \in 1..Len(g) :
                Cardinality(Members(g, << g[j].merchant_group, g[j].norm_amount >>)) = 1 } }

\* The groups of merchant_intervals: a partition of one row has no interval
\* row and forms no group.
StatsGroups(g) ==
  { GroupStats(g, part) : part \in { q \in Partitions(g) : Cardinality(Members(g, q)) >= 2 } }

Abs(x) == IF x < 0 THEN -x ELSE x

\* ORDER BY ABS(avg_amount) DESC; groups of equal rank are taken in the scan
\* order of their first row.
RECURSIVE OrderByAbsAmount(_)
OrderByAbsAmount(S) ==
  IF S = {} THEN << >>
  ELSE LET s == CHOOSE x \in S : \A y \in S :
                  \/ Abs(x.sum_amount) * y.cnt > Abs(y.sum_amount) * x.cnt
                  \/ /\ Abs(x.sum_amount) * y.cnt = Abs(y.sum_amount) * x.cnt
                     /\ x.first_row <= y.first_row
       IN  << s >> \o OrderByAbsAmount(S \ {s})

\* RECURRING_SQL, given the engine's choice of canonical merchants.
RecurringQuery(tx, canon) ==
  LET g == GroupedTransactions(BaseTransactions(tx), canon)
  IN  OrderByAbsAmount({ s \in StatsGroups(g) : RecurringHaving(s) })

\* ORDER BY occurrence_count DESC, ABS(avg_amount) DESC.
RECURSIVE OrderByCountAbsAmount(_)
OrderByCountAbsAmount(S) ==
  IF S = {} THEN << >>
  ELSE LET s == CHOOSE x \in S : \A y \in S :
                  \/ x.occurrence_count > y.occurrence_count
                  \/ /\ x.occurrence_count = y.occurrence_count
                     /\ \/ Abs(x.sum_amount) * y.cnt > Abs(y.sum_amount) * x.cnt
                        \/ /\ Abs(x.sum_amount) * y.cnt = Abs(y.sum_amount) * x.cnt
                           /\ x.first_row <= y.first_row
       IN  << s >> \o OrderByCountAbsAmount(S \ {s})

\* SUGGESTION_SQL, given the engine's choice of canonical merchants.
SuggestionQuery(tx, canon) ==
  LET g == GroupedTransactions(BaseTransactions(tx), canon)
  IN  OrderByCountAbsAmount({ s \in StatsGroups(g) : SuggestionHaving(s) })

---------------------------------------------------------------------------
(* loadData: from a row of RECURRING_SQL to a RecurringTransaction.        *)

\* Math.round(avg_interval), the average being sum_interval / cnt.
RoundedInterval(s) == (2 * s.sum_interval + s.cnt) \div (2 * s.cnt)

\* A chain whose bounds are exclusive.
FrequencyExclusive(interval_days) ==
  IF interval_days < 8 THEN "weekly"
  ELSE IF interval_days < 16 THEN "biweekly"
  ELSE IF interval_days < 35 THEN "monthly"
  ELSE IF interval_days < 100 THEN "quarterly"
  ELSE "annual"

\* The frequency chain of loadData.
Frequency(interval_days) ==
  IF interval_days <= 8 THEN "weekly"
  ELSE IF interval_days <= 16 THEN "biweekly"
  ELSE IF interval_days <= 35 THEN "monthly"
  ELSE IF interval_days <= 100 THEN "quarterly"
  ELSE "annual"

\* The frequency chain of loadSuggestions.
SuggestionFrequency(interval) ==
  IF interval <= 8 THEN "weekly"
  ELSE IF interval <= 16 THEN "biweekly"
  ELSE IF interval <= 35 THEN "monthly"
  ELSE IF interval <= 100 THEN "quarterly"
  ELSE "annual"

\* while (nextDateObj < today) nextDateObj.setDate(getDate() + interval_days)
RECURSIVE MoveForward(_, _, _)
MoveForward(nextDateObj, todayObj, interval_days) ==
  IF nextDateObj < todayObj
  THEN MoveForward(AddDays(nextDateObj, interval_days), todayObj, interval_days)
  ELSE nextDateObj

\* The same loop advancing by one day at a time.
RECURSIVE MoveForwardStepsDaily(_, _, _)
MoveForwardStepsDaily(nextDateObj, todayObj, interval_days) ==
  IF nextDateObj < todayObj
  THEN 1 + MoveForwardStepsDaily(AddDays(nextDateObj, 1), todayObj, interval_days)
  ELSE 0

\* The number of times the body of that while loop runs.
RECURSIVE MoveForwardSteps(_, _, _)
MoveForwardSteps(nextDateObj, todayObj, interval_days) ==
  IF nextDateObj < todayObj
  THEN 1 + MoveForwardSteps(AddDays(nextDateObj, interval_days), todayObj,
                            interval_days)
  ELSE 0

\* The next expected date of loadData, as the string it stores.
NextDate(last_date, interval_days, day, zone) ==
  ToISODate(MoveForward(AddDays(ParseDate(last_date), interval_days),
                        TodayMidnight(day, zone), interval_days))

\* Math.round(avg_amount * 100) / 100, the average being sum_amount / cnt.
RoundedAmount(s) == 10 * ((s.sum_amount + 5 * s.cnt) \div (10 * s.cnt))

\* The body of rows.map in loadData.
MapRow(s, hidden, day, zone) ==
  LET merchant_key  == IF s.merchant_key \in {Null, ""}
                       THEN Upper(s.description) ELSE s.merchant_key
      interval_days == RoundedInterval(s)
  IN  [description      |-> s.description,
       merchant_key     |-> merchant_key,
       amount           |-> RoundedAmount(s),
       frequency        |-> Frequency(interval_days),
       interval_days    |-> interval_days,
       occurrence_count |-> s.occurrence_count,
       last_date        |-> s.last_date,
       next_date        |-> NextDate(s.last_date, interval_days, day, zone),
       is_income        |-> s.sum_amount > 0,
       is_hidden        |-> merchant_key \in hidden]

MapRows(rows, hidden, day, zone) ==
  [k \in 1..Len(rows) |-> MapRow(rows[k], hidden, day, zone)]

---------------------------------------------------------------------------
(* generateProjections.                                                    *)

\* The while loop over checkDate: whether txn occurs on the day `date`,
\* whose string is dateStr.
RECURSIVE OccursOn(_, _, _, _)
OccursOn(checkDate, date, dateStr, interval_days) ==
  IF checkDate <= date
  THEN IF ToISODate(checkDate) = dateStr
       THEN TRUE
       ELSE OccursOn(AddDays(checkDate, interval_days), date, dateStr, interval_days)
  ELSE FALSE

\* The number of times that while loop advances checkDate.
RECURSIVE OccursOnSteps(_, _, _, _)
OccursOnSteps(checkDate, date, dateStr, interval_days) ==
  IF checkDate <= date
  THEN IF ToISODate(checkDate) = dateStr
       THEN 0
       ELSE 1 + OccursOnSteps(AddDays(checkDate, interval_days), date, dateStr,
                              interval_days)
  ELSE 0

\* dayTransactions of the day `date`: the active patterns occurring on it,
\* in the order of the list.
DayTransactions(activeRecurring, date, zone) ==
  LET hits == SelectSeq(activeRecurring, LAMBDA txn :
                OccursOn(SetHoursZero(ParseDate(txn.next_date), zone), date,
                         ToISODate(date), txn.interval_days))
  IN  [k \in 1..Len(hits) |->
         [description |-> hits[k].description, amount |-> hits[k].amount]]

\* A projection that keeps the patterns of the exclusion set.
ActiveRecurringAll(list, hidden) == list

\* The filter of line 319.
ActiveRecurring(list, hidden) ==
  SelectSeq(list, LAMBDA t : t.merchant_key \notin hidden)

\* A balance that restarts from the day's total on a day with occurrences.
NextBalanceNoCarry(balance, dayTransactions) ==
  IF dayTransactions = << >> THEN balance
  ELSE RoundCents(SumSeq([k \in 1..Len(dayTransactions) |-> dayTransactions[k].amount]))

\* balance = Math.round((balance + dayTotal) * 100) / 100
NextBalance(balance, dayTransactions) ==
  RoundCents(balance + SumSeq([k \in 1..Len(dayTransactions) |-> dayTransactions[k].amount]))

\* A flag raised at the threshold as well as below it.
IsDangerAtThreshold(balance, threshold) == balance <= threshold

\* is_danger: balance < dangerThreshold
IsDanger(balance, threshold) == balance < threshold

\* One ProjectedDay, as pushed onto days.
ProjectedDay(date, dayTransactions, balance, threshold) ==
  [date         |-> ToISODate(date),
   balance      |-> balance,
   transactions |-> dayTransactions,
   is_danger    |-> IsDanger(balance, threshold)]

\* The for loop from day offset i on, the running balance being `balance`.
RECURSIVE ProjectFrom(_, _, _, _, _, _, _)
ProjectFrom(i, balance, activeRecurring, horizon, threshold, todayObj, zone) ==
  IF i <= horizon
  THEN LET date == AddDays(todayObj, i)
           dayTransactions == DayTransactions(activeRecurring, date, zone)
           newBalance == NextBalance(balance, dayTransactions)
       IN  << ProjectedDay(date, dayTransactions, newBalance, threshold) >>
           \o ProjectFrom(i + 1, newBalance, activeRecurring, horizon, threshold,
                          todayObj, zone)
  ELSE << >>

\* generateProjections(): the value it assigns to projections.
GenerateProjections(list, hidden, balance, horizon, threshold, day, zone) ==
  ProjectFrom(0, balance, ActiveRecurring(list, hidden), horizon, threshold,
              TodayMidnight(day, zone), zone)

---------------------------------------------------------------------------
(* Bounds of the model and the inputs drawn from them.                     *)

\* The local day the clock shows when the view is created.
Day0 == 100

\* The clock advances by at most MaxTicks days while the view is open.
MaxTicks == 1

\* The runtime's timezone is UTC or ZoneOffset hours west or east of it.
ZoneOffset == 5

\* The largest horizon a saved setting or a call of setHorizon carries.
MaxHorizon == 14

Zones == { -ZoneOffset, 0, ZoneOffset }

HorizonInputs == { MaxHorizon \div 2, MaxHorizon }

Txn(d, a, t) == [description |-> d, amount |-> a, transaction_date |-> t]

\* A weekly expense of 50.00, last paid six days before Day0.
WeeklyLedger ==
  << Txn("Netflix", -50000, Day0 - 20), Txn("Netflix", -50000, Day0 - 13),
     Txn("Netflix", -50000, Day0 - 6) >>

\* A weekly expense of 50.00 paid a week before Day0 under two spellings, a
\* weekly income of 120.004 paid four days before Day0, and rent paid once.
MixedLedger ==
  << Txn("Netflix", -50000, Day0 - 21), Txn("Payroll", 120004, Day0 - 18),
     Txn("netflix.com", -50000, Day0 - 14), Txn("Payroll", 120004, Day0 - 11),
     Txn("Rent", -900000, Day0 - 9), Txn("Netflix", -50000, Day0 - 7),
     Txn("Payroll", 120004, Day0 - 4) >>

\* The databases the view may be opened on: the table transactions and the
\* total of the account balances, in mills.
Databases ==
  { [transactions |-> WeeklyLedger, balance |-> 1000000],
    [transactions |-> MixedLedger,  balance |-> 1000046] }

\* The saved settings: 0 stands for a setting that was never saved.
SavedSettings ==
  { [horizonDays |-> 0, dangerThreshold |-> 0],
    [horizonDays |-> MaxHorizon, dangerThreshold |-> 0],
    [horizonDays |-> MaxHorizon, dangerThreshold |-> 950000] }

\* The persisted exclusion tables the view may start from.
HiddenTables == { {}, {"NETFLIX"} }

---------------------------------------------------------------------------
(* The view's state after construction.                                    *)

\* let horizonDays = $state(60)
DefaultHorizon == 60

NoRun ==
  [ran |-> FALSE, list |-> << >>, hidden |-> {}, balance |-> 0, horizon |-> 0,
   threshold |-> 0, today |-> 0, again |-> FALSE]

NoOp == [op |-> "none", key |-> "", pre |-> << >>]

NoDetection == [query |-> "none", canon |-> << >>, rows |-> << >>]

NoProbe == [fn |-> "none"]

NoCycle == [st |-> "none", balance |-> 0, list |-> << >>]

\* No call of saveNewItem is in flight.
NoSave == [pc |-> "none"]

InitEnv ==
  /\ tz \in Zones
  /\ today = Day0
  /\ \E db \in Databases : transactions = db.transactions /\ dbBalance = db.balance
  /\ dbHidden \in HiddenTables
  /\ dbSettings \in SavedSettings

InitView ==
  /\ recurringTransactions = << >>
  /\ hiddenKeys = {}
  /\ currentBalance = 0
  /\ projections = << >>
  /\ isLoading = TRUE
  /\ horizonDays = DefaultHorizon
  /\ dangerThreshold = 0
  /\ showHidden = FALSE
  /\ cursorIndex = 0
  /\ lastToast = "none"
  /\ mountPc = "start"
  /\ loads = << >>
  /\ ops = {}
  /\ lastRun = NoRun
  /\ lastOp = NoOp
  /\ detected = NoDetection
  /\ probe = NoProbe
  /\ newest = NoCycle
  /\ items = << >>
  /\ dbItems = {}
  /\ saving = NoSave

Init == InitEnv /\ InitView

---------------------------------------------------------------------------
(* The handlers, each run from its call to its end.                        *)

\* The $effect of lines 499-503, run after a step that assigned the list,
\* the show-hidden toggle or the cursor.
KeepCursorInBounds ==
  LET n == Len(SelectSeq(recurringTransactions',
                         LAMBDA t : showHidden' \/ ~t.is_hidden))
  IN  cursorIndex' = IF cursorIndex >= n THEN Max({0, n - 1}) ELSE cursorIndex

\* What a run of generateProjections reads; again tells that the run before
\* it read the same.
RunInputs(list, hidden, balance, horizon, threshold) ==
  [ran |-> TRUE, list |-> list, hidden |-> hidden, balance |-> balance,
   horizon |-> horizon, threshold |-> threshold, today |-> today,
   again |-> /\ lastRun.ran
             /\ << lastRun.list, lastRun.hidden, lastRun.balance, lastRun.horizon,
                   lastRun.threshold, lastRun.today >>
                = << list, hidden, balance, horizon, threshold, today >>]

\* generateProjections with a balance that lives on between the runs: a run
\* starts from the balance the run before it ended with.
RegenerateCarrying(list, hidden, balance, horizon, threshold) ==
  /\ projections' = GenerateProjections(list, hidden,
                                        IF Len(projections) > 0
                                        THEN projections[Len(projections)].balance
                                        ELSE balance,
                                        horizon, threshold, today, tz)
  /\ lastRun' = RunInputs(list, hidden, balance, horizon, threshold)

\* A call of generateProjections() in the state made of the arguments.
Regenerate(list, hidden, balance, horizon, threshold) ==
  /\ projections' = GenerateProjections(list, hidden, balance, horizon,
                                        threshold, today, tz)
  /\ lastRun' = RunInputs(list, hidden, balance, horizon, threshold)

\* The $effect of lines 506-510, run after a change of the state it reads.
RegenerateEffect(list, hidden, balance, horizon, threshold, loading) ==
  IF ~loading /\ Len(list) > 0
  THEN Regenerate(list, hidden, balance, horizon, threshold)
  ELSE UNCHANGED << projections, lastRun >>

\* loadSettings: the horizon and the threshold it leaves.  outcome is "ok",
\* "fail1" (the first settings.get throws) or "fail2" (the second does).
LoadSettings(outcome) ==
  [horizonDays     |-> IF outcome # "fail1" /\ dbSettings.horizonDays # 0
                       THEN dbSettings.horizonDays ELSE horizonDays,
   dangerThreshold |-> IF outcome = "ok" /\ dbSettings.dangerThreshold # 0
                       THEN dbSettings.dangerThreshold ELSE dangerThreshold]

\* loadHiddenKeys: new Set(rows.map(r => r[0]).filter(Boolean)).
LoadHiddenKeys(ok) == IF ok THEN dbHidden \ {Null, ""} ELSE hiddenKeys

\* The rows RECURRING_SQL may return on the current table.
RecurringRows ==
  { RecurringQuery(transactions, canon) :
      canon \in CanonicalMerchants(BaseTransactions(transactions)) }

\* currentBalance = Math.round((balanceRows[0]?.[0] || 0) * 100) / 100
LoadedBalance == RoundCents(dbBalance)

\* loadData from its call to its end, hidden, horizon and threshold being
\* the values of hiddenKeys, horizonDays and dangerThreshold it runs with.
\* outcome is "ok", "failBalance" (the balance query throws) or "failRows"
\* (the detection query throws).
LoadDataBody(outcome, hidden, horizon, threshold) ==
  /\ isLoading' = FALSE
  /\ lastToast' = IF outcome = "ok" THEN lastToast ELSE "error"
  /\ currentBalance' = IF outcome = "failBalance" THEN currentBalance ELSE LoadedBalance
  /\ IF outcome = "ok"
     THEN \E rows \in RecurringRows :
            /\ recurringTransactions' = MapRows(rows, hidden, today, tz)
            /\ Regenerate(recurringTransactions', hidden, currentBalance',
                          horizon, threshold)
     ELSE /\ UNCHANGED recurringTransactions
          /\ RegenerateEffect(recurringTransactions, hidden, currentBalance',
                              horizon, threshold, FALSE)

Outcomes == { "ok", "failBalance", "failRows" }

\* onMount: ensureTables, loadSettings, loadHiddenKeys, loadData.
Mount ==
  /\ mountPc = "start"
  /\ mountPc' = "done"
  /\ \E so \in { "ok", "fail1", "fail2" }, hok \in BOOLEAN, outcome \in Outcomes :
       /\ horizonDays' = LoadSettings(so).horizonDays
       /\ dangerThreshold' = LoadSettings(so).dangerThreshold
       /\ hiddenKeys' = LoadHiddenKeys(hok)
       /\ LoadDataBody(outcome, hiddenKeys', horizonDays', dangerThreshold')
  /\ UNCHANGED << tz, today, transactions, dbBalance, dbHidden, dbSettings,
                  showHidden, loads, ops, lastOp, detected, probe, newest,
                  items, dbItems, saving >>
  /\ KeepCursorInBounds

\* loadData, called by the data-refresh signal or the refresh button.
LoadData ==
  /\ mountPc = "done"
  /\ \E outcome \in Outcomes :
       LoadDataBody(outcome, hiddenKeys, horizonDays, dangerThreshold)
  /\ UNCHANGED << tz, today, transactions, dbBalance, dbHidden, dbSettings,
                  hiddenKeys, horizonDays, dangerThreshold, showHidden,
                  mountPc, loads, ops, lastOp, detected, probe, newest,
                  items, dbItems, saving >>
  /\ KeepCursorInBounds

\* The patterns the list shows: visibleTransactions.
Visible(t) == showHidden \/ ~t.is_hidden

\* visibleTransactions, lines 46-48.
VisibleTransactions == SelectSeq(recurringTransactions, Visible)

\* A patch of the first pattern of the key alone.
SetHiddenFirst(list, key, flag) ==
  [k \in 1..Len(list) |->
     IF /\ list[k].merchant_key = key
        /\ \A j \in 1..(k - 1) : list[j].merchant_key # key
     THEN [list[k] EXCEPT !.is_hidden = flag]
     ELSE list[k]]

\* recurringTransactions.map(t => t.merchant_key === key ? {...t, is_hidden} : t)
SetHidden(list, key, flag) ==
  [k \in 1..Len(list) |->
     IF list[k].merchant_key = key THEN [list[k] EXCEPT !.is_hidden = flag]
     ELSE list[k]]

\* hideTransaction(txn) after its INSERT succeeded.
HideContinuation(key) ==
  /\ hiddenKeys' = hiddenKeys \cup {key}
  /\ recurringTransactions' = SetHidden(recurringTransactions, key, TRUE)
  /\ Regenerate(recurringTransactions', hiddenKeys', currentBalance,
                horizonDays, dangerThreshold)
  /\ lastToast' = "info"

\* unhideTransaction(txn) after its DELETE succeeded.
UnhideContinuation(key) ==
  /\ hiddenKeys' = hiddenKeys \ {key}
  /\ recurringTransactions' = SetHidden(recurringTransactions, key, FALSE)
  /\ Regenerate(recurringTransactions', hiddenKeys', currentBalance,
                horizonDays, dangerThreshold)
  /\ lastToast' = "info"

\* A failure that flips the flags of every pattern and drops the exclusion
\* set instead of reporting.
HideFailureFlips ==
  /\ hiddenKeys' = {}
  /\ recurringTransactions'
       = [k \in 1..Len(recurringTransactions) |->
            [recurringTransactions[k] EXCEPT !.is_hidden = ~@]]
  /\ UNCHANGED << lastToast, projections, lastRun >>

\* The catch block of hideTransaction and of unhideTransaction.
HideFailure ==
  /\ lastToast' = "error"
  /\ UNCHANGED << hiddenKeys, recurringTransactions, projections, lastRun >>

\* hideTransaction(txn), from the Hide button or the h key on a pattern
\* shown as not hidden.
HideTransaction ==
  /\ mountPc = "done"
  /\ \E k \in 1..Len(recurringTransactions), ok \in BOOLEAN :
       LET txn == recurringTransactions[k] IN
       /\ Visible(txn) /\ ~txn.is_hidden
       /\ IF ok
          THEN /\ dbHidden' = dbHidden \cup {txn.merchant_key}
               /\ HideContinuation(txn.merchant_key)
          ELSE /\ UNCHANGED dbHidden
               /\ HideFailure
  /\ UNCHANGED << tz, today, transactions, dbBalance, dbSettings, currentBalance,
                  isLoading, horizonDays, dangerThreshold, showHidden, mountPc,
                  loads, ops, lastOp, detected, probe, newest,
                  items, dbItems, saving >>
  /\ KeepCursorInBounds

\* unhideTransaction(txn), from the Restore button or the h key on a pattern
\* shown as hidden.
UnhideTransaction ==
  /\ mountPc = "done"
  /\ \E k \in 1..Len(recurringTransactions), ok \in BOOLEAN :
       LET txn == recurringTransactions[k] IN
       /\ Visible(txn) /\ txn.is_hidden
       /\ IF ok
          THEN /\ dbHidden' = dbHidden \ {txn.merchant_key}
               /\ UnhideContinuation(txn.merchant_key)
          ELSE /\ UNCHANGED dbHidden
               /\ HideFailure
  /\ UNCHANGED << tz, today, transactions, dbBalance, dbSettings, currentBalance,
                  isLoading, horizonDays, dangerThreshold, showHidden, mountPc,
                  loads, ops, lastOp, detected, probe, newest,
                  items, dbItems, saving >>
  /\ KeepCursorInBounds

\* setHorizon(days).  When settings.set throws, the call of
\* generateProjections after it is not reached; the $effect has run on the
\* change of horizonDays.  The view does not read the saved horizon again,
\* and the value settings.set stores is not tracked.
SetHorizon ==
  /\ mountPc = "done"
  /\ \E days \in HorizonInputs, ok \in BOOLEAN :
       /\ horizonDays' = days
       /\ IF ok
          THEN Regenerate(recurringTransactions, hiddenKeys, currentBalance,
                          days, dangerThreshold)
          ELSE IF days # horizonDays
               THEN RegenerateEffect(recurringTransactions, hiddenKeys,
                                     currentBalance, days, dangerThreshold, isLoading)
               ELSE UNCHANGED << projections, lastRun >>
  /\ UNCHANGED << tz, today, transactions, dbBalance, dbHidden, dbSettings,
                  recurringTransactions, hiddenKeys, currentBalance, isLoading,
                  dangerThreshold, showHidden, cursorIndex, lastToast, mountPc, loads, ops,
                  lastOp, detected, probe, newest,
                  items, dbItems, saving >>

\* onclick={() => showHidden = !showHidden}
ToggleShowHidden ==
  /\ mountPc = "done"
  /\ showHidden' = ~showHidden
  /\ UNCHANGED << tz, today, transactions, dbBalance, dbHidden, dbSettings,
                  recurringTransactions, hiddenKeys, currentBalance, projections,
                  isLoading, horizonDays, dangerThreshold, lastToast, mountPc,
                  loads, ops, lastRun, lastOp, detected, probe, newest,
                  items, dbItems, saving >>
  /\ KeepCursorInBounds

\* The system clock passes local midnight.
Tick ==
  /\ today < Day0 + MaxTicks
  /\ today' = today + 1
  /\ UNCHANGED << tz, transactions, dbBalance, dbHidden, dbSettings,
                  recurringTransactions, hiddenKeys, currentBalance, projections,
                  isLoading, horizonDays, dangerThreshold, showHidden, cursorIndex, lastToast,
                  mountPc, loads, ops, lastRun, lastOp, detected, probe, newest,
                  items, dbItems, saving >>

Next ==
  \/ Mount
  \/ LoadData
  \/ HideTransaction
  \/ UnhideTransaction
  \/ SetHorizon
  \/ ToggleShowHidden
  \/ Tick

Spec == Init /\ [][Next]_vars

---------------------------------------------------------------------------
(* The handlers step by step: every await is a point where the handlers of *)
(* other events run.  loads holds the position of every loadData call in   *)
(* flight, ops the hideTransaction and unhideTransaction calls in flight   *)
(* as [op, key, st], st being "sent" until the storage engine has  *)
(* run the statement and "ok" or "err" from then until the call resumes.   *)

\* At most MaxLoads calls of loadData are in flight at once.
MaxLoads == 2

\* At most MaxOps calls of the other handlers are in flight at once.
MaxOps == 1

\* What the last handler step saw, for a step that changed the view.
SeenBy(op, key) ==
  [op |-> op, key |-> key,
   pre |-> << recurringTransactions, hiddenKeys, projections >>]

\* The $effect after a step that assigned the state it reads: it runs when
\* one of the values changed.
EffectAfter(changed, list, hidden, balance, horizon, threshold, loading) ==
  IF changed
  THEN RegenerateEffect(list, hidden, balance, horizon, threshold, loading)
  ELSE UNCHANGED << projections, lastRun >>

\* lastOp after a step other than a continuation of hide or unhide: it is
\* forgotten when the step changed what the view shows or the day.
ForgetIfChanged ==
  lastOp' = IF << recurringTransactions, hiddenKeys, projections, currentBalance,
                  horizonDays, dangerThreshold, today >>'
               = << recurringTransactions, hiddenKeys, projections, currentBalance,
                    horizonDays, dangerThreshold, today >>
            THEN lastOp ELSE NoOp

\* loads after a call of loadData ran up to its first await: the balance
\* query is issued on the accounts as they stand, and the call is the latest.
Started ==
  Append([k \in 1..Len(loads) |-> [loads[k] EXCEPT !.latest = FALSE]],
         [pc |-> "balance", read |-> dbBalance, latest |-> TRUE])

\* What the storage engine may return to a balance query in flight: the sum
\* when the query was issued or the sum now.
BalanceReads(load) == {load.read, dbBalance}

\* onMount up to its first await: the subscription to the data-refresh
\* signal, and the call of ensureTables.
MountStart ==
  /\ mountPc = "start"
  /\ mountPc' = "ensureTables"
  /\ UNCHANGED << tz, today, transactions, dbBalance, dbHidden, dbSettings,
                  recurringTransactions, hiddenKeys, currentBalance, projections,
                  isLoading, horizonDays, dangerThreshold, showHidden, cursorIndex, lastToast,
                  loads, ops, lastRun, lastOp, detected, probe, newest,
                  items, dbItems, saving >>

\* ensureTables returns (it swallows its errors); loadSettings is called.
MountEnsureTables ==
  /\ mountPc = "ensureTables"
  /\ mountPc' = "loadSettings1"
  /\ UNCHANGED << tz, today, transactions, dbBalance, dbHidden, dbSettings,
                  recurringTransactions, hiddenKeys, currentBalance, projections,
                  isLoading, horizonDays, dangerThreshold, showHidden, cursorIndex, lastToast,
                  loads, ops, lastRun, lastOp, detected, probe, newest,
                  items, dbItems, saving >>

\* settings.get("horizonDays") returns or throws.
MountLoadSettings1 ==
  /\ mountPc = "loadSettings1"
  /\ \E ok \in BOOLEAN :
       /\ mountPc' = IF ok THEN "loadSettings2" ELSE "loadHiddenKeys"
       /\ horizonDays' = LoadSettings(IF ok THEN "fail2" ELSE "fail1").horizonDays
  /\ EffectAfter(horizonDays' # horizonDays, recurringTransactions, hiddenKeys,
                 currentBalance, horizonDays', dangerThreshold, isLoading)
  /\ UNCHANGED << tz, today, transactions, dbBalance, dbHidden, dbSettings,
                  recurringTransactions, hiddenKeys, currentBalance, isLoading,
                  dangerThreshold, showHidden, cursorIndex, lastToast, loads, ops, detected, probe, newest,
                  items, dbItems, saving >>
  /\ ForgetIfChanged

\* settings.get("dangerThreshold") returns or throws.
MountLoadSettings2 ==
  /\ mountPc = "loadSettings2"
  /\ mountPc' = "loadHiddenKeys"
  /\ \E ok \in BOOLEAN :
       dangerThreshold' = LoadSettings(IF ok THEN "ok" ELSE "fail2").dangerThreshold
  /\ EffectAfter(dangerThreshold' # dangerThreshold, recurringTransactions,
                 hiddenKeys, currentBalance, horizonDays, dangerThreshold', isLoading)
  /\ UNCHANGED << tz, today, transactions, dbBalance, dbHidden, dbSettings,
                  recurringTransactions, hiddenKeys, currentBalance, isLoading,
                  horizonDays, showHidden, cursorIndex, lastToast, loads, ops, detected, probe, newest,
                  items, dbItems, saving >>
  /\ ForgetIfChanged

\* The query of loadHiddenKeys returns or throws; the $effect runs on the
\* change of hiddenKeys; then onMount calls loadData, which runs up to its
\* first await.  onMount changes no state after that call.
MountLoadHiddenKeys ==
  /\ mountPc = "loadHiddenKeys"
  /\ mountPc' = "done"
  /\ \E ok \in BOOLEAN : hiddenKeys' = LoadHiddenKeys(ok)
  /\ EffectAfter(hiddenKeys' # hiddenKeys, recurringTransactions, hiddenKeys',
                 currentBalance, horizonDays, dangerThreshold, isLoading)
  /\ isLoading' = TRUE
  /\ loads' = Started
  /\ newest' = [NoCycle EXCEPT !.st = "pending"]
  /\ UNCHANGED << tz, today, transactions, dbBalance, dbHidden, dbSettings,
                  recurringTransactions, currentBalance, horizonDays,
                  dangerThreshold, showHidden, cursorIndex, lastToast, ops, detected, probe,
                  items, dbItems, saving >>
  /\ ForgetIfChanged

\* The calls of loadData onMount has still to make.
MountLoads == IF mountPc = "done" THEN 0 ELSE 1

\* The data-refresh signal, or the refresh button: loadData up to its first
\* await.
LoadDataStart ==
  /\ mountPc # "start"
  /\ Len(loads) + MountLoads < MaxLoads
  /\ isLoading' = TRUE
  /\ loads' = Started
  /\ newest' = [NoCycle EXCEPT !.st = "pending"]
  /\ UNCHANGED << tz, today, transactions, dbBalance, dbHidden, dbSettings,
                  recurringTransactions, hiddenKeys, currentBalance, projections,
                  horizonDays, dangerThreshold, showHidden, cursorIndex, lastToast, mountPc,
                  ops, lastRun, lastOp, detected, probe,
                  items, dbItems, saving >>

\* The sequence s without its element of index n.
Without(s, n) == [k \in 1..(Len(s) - 1) |-> IF k < n THEN s[k] ELSE s[k + 1]]

\* A failure that leaves an empty pattern list.
LoadDataFailureClears ==
  /\ lastToast' = "error"
  /\ isLoading' = FALSE
  /\ recurringTransactions' = << >>

\* The catch and the finally block of loadData.
LoadDataFailure ==
  /\ lastToast' = "error"
  /\ isLoading' = FALSE
  /\ UNCHANGED recurringTransactions

\* The balance query of a call of loadData returns or throws.
LoadDataBalance ==
  \E n \in 1..Len(loads), ok \in BOOLEAN :
    /\ loads[n].pc = "balance"
    /\ IF ok
       THEN /\ \E total \in BalanceReads(loads[n]) :
                 /\ currentBalance' = RoundCents(total)
                 /\ loads' = [loads EXCEPT ![n] = [@ EXCEPT !.pc = "rows",
                                                              !.read = total]]
            /\ UNCHANGED newest
            /\ EffectAfter(currentBalance' # currentBalance, recurringTransactions,
                           hiddenKeys, currentBalance', horizonDays,
                           dangerThreshold, isLoading)
            /\ UNCHANGED << isLoading, lastToast, recurringTransactions >>
       ELSE /\ loads' = Without(loads, n)
            /\ LoadDataFailure
            /\ EffectAfter(isLoading, recurringTransactions, hiddenKeys,
                           currentBalance, horizonDays, dangerThreshold, FALSE)
            /\ newest' = IF loads[n].latest
                         THEN [NoCycle EXCEPT !.st = "balanceFailed"] ELSE newest
            /\ UNCHANGED currentBalance
    /\ UNCHANGED << tz, today, transactions, dbBalance, dbHidden, dbSettings,
                    hiddenKeys, horizonDays, dangerThreshold, showHidden, mountPc,
                    ops, detected, probe,
                    items, dbItems, saving >>
    /\ KeepCursorInBounds
    /\ ForgetIfChanged

\* The detection query of a call of loadData returns or throws.
LoadDataRows ==
  \E n \in 1..Len(loads), ok \in BOOLEAN :
    /\ loads[n].pc = "rows"
    /\ loads' = Without(loads, n)
    /\ IF ok
       THEN /\ \E rows \in RecurringRows :
                 recurringTransactions' = MapRows(rows, hiddenKeys, today, tz)
            /\ Regenerate(recurringTransactions', hiddenKeys, currentBalance,
                          horizonDays, dangerThreshold)
            /\ isLoading' = FALSE
            /\ newest' = IF loads[n].latest
                         THEN [st |-> "done", balance |-> RoundCents(loads[n].read),
                               list |-> recurringTransactions']
                         ELSE newest
            /\ UNCHANGED lastToast
       ELSE /\ LoadDataFailure
            /\ EffectAfter(isLoading, recurringTransactions, hiddenKeys,
                           currentBalance, horizonDays, dangerThreshold, FALSE)
            /\ newest' = IF loads[n].latest
                         THEN [NoCycle EXCEPT !.st = "rowsFailed"] ELSE newest
    /\ UNCHANGED << tz, today, transactions, dbBalance, dbHidden, dbSettings,
                    hiddenKeys, currentBalance, horizonDays, dangerThreshold,
                    showHidden, mountPc, ops, detected, probe,
                    items, dbItems, saving >>
    /\ KeepCursorInBounds
    /\ ForgetIfChanged

\* hideTransaction(txn) or unhideTransaction(txn) up to its await: the
\* statement is sent.  The Hide button and the h key call hideTransaction on
\* a pattern shown as not hidden, the Restore button and the h key call
\* unhideTransaction on a pattern shown as hidden.
HideStartUpTo(inFlight) ==
  \E k \in 1..Len(recurringTransactions) :
    LET txn == recurringTransactions[k]
        o   == [op  |-> IF txn.is_hidden THEN "unhide" ELSE "hide",
                key |-> txn.merchant_key, st |-> "sent"]
    IN  /\ Visible(txn)
        /\ Cardinality(ops) < inFlight
        /\ o \notin ops
        /\ ops' = ops \cup {o}
        /\ UNCHANGED << tz, today, transactions, dbBalance, dbHidden, dbSettings,
                        recurringTransactions, hiddenKeys, currentBalance,
                        projections, isLoading, horizonDays, dangerThreshold,
                        showHidden, cursorIndex, lastToast, mountPc, loads, lastRun, lastOp,
                        detected, probe, newest,
                        items, dbItems, saving >>

\* At most MaxOps calls are in flight.
HideStart == HideStartUpTo(MaxOps)

\* The table after the statement of o: INSERT ... ON CONFLICT DO UPDATE, or
\* DELETE ... WHERE merchant_key = key.
Written(o) ==
  IF o.op = "hide" THEN dbHidden \cup {o.key}
  ELSE dbHidden \ {o.key}

\* The storage engine runs the statement of a call in flight, or fails to.
StorageRuns ==
  \E o \in ops, ok \in BOOLEAN :
    /\ o.st = "sent"
    /\ dbHidden' = IF ok THEN Written(o) ELSE dbHidden
    /\ ops' = (ops \ {o}) \cup {[o EXCEPT !.st = IF ok THEN "ok" ELSE "err"]}
    /\ UNCHANGED << tz, today, transactions, dbBalance, dbSettings,
                    recurringTransactions, hiddenKeys, currentBalance,
                    projections, isLoading, horizonDays, dangerThreshold,
                    showHidden, cursorIndex, lastToast, mountPc, loads, lastRun, lastOp,
                    detected, probe, newest,
                    items, dbItems, saving >>

\* hideTransaction resumes after its await.
HideResume ==
  \E o \in ops :
    /\ o.op = "hide" /\ o.st # "sent"
    /\ ops' = ops \ {o}
    /\ IF o.st = "ok"
       THEN /\ HideContinuation(o.key)
            /\ lastOp' = SeenBy("hide", o.key)
       ELSE /\ HideFailure
            /\ lastOp' = SeenBy("hide-failed", o.key)
    /\ UNCHANGED << tz, today, transactions, dbBalance, dbHidden, dbSettings,
                    currentBalance, isLoading, horizonDays, dangerThreshold,
                    showHidden, mountPc, loads, detected, probe, newest,
                    items, dbItems, saving >>
    /\ KeepCursorInBounds

\* unhideTransaction resumes after its await.
UnhideResume ==
  \E o \in ops :
    /\ o.op = "unhide" /\ o.st # "sent"
    /\ ops' = ops \ {o}
    /\ IF o.st = "ok"
       THEN /\ UnhideContinuation(o.key)
            /\ lastOp' = IF lastOp.op = "hide" /\ lastOp.key = o.key
                         THEN [lastOp EXCEPT !.op = "hide-unhide"]
                         ELSE NoOp
       ELSE /\ HideFailure
            /\ lastOp' = SeenBy("unhide-failed", o.key)
    /\ UNCHANGED << tz, today, transactions, dbBalance, dbHidden, dbSettings,
                    currentBalance, isLoading, horizonDays, dangerThreshold,
                    showHidden, mountPc, loads, detected, probe, newest,
                    items, dbItems, saving >>
    /\ KeepCursorInBounds

\* The show-hidden toggle, at any time after the view is created.
ToggleShowHiddenAsync ==
  /\ showHidden' = ~showHidden
  /\ UNCHANGED << tz, today, transactions, dbBalance, dbHidden, dbSettings,
                  recurringTransactions, hiddenKeys, currentBalance, projections,
                  isLoading, horizonDays, dangerThreshold, lastToast, mountPc,
                  loads, ops, lastRun, lastOp, detected, probe, newest,
                  items, dbItems, saving >>
  /\ KeepCursorInBounds

\* The view is opened on the weekly ledger.
InitAsync ==
  /\ tz = 0
  /\ today = Day0
  /\ transactions = WeeklyLedger
  /\ dbBalance = 1000000
  /\ dbHidden \in HiddenTables
  /\ dbSettings = [horizonDays |-> MaxHorizon, dangerThreshold |-> 950000]
  /\ InitView

NextAsync ==
  \/ MountStart
  \/ MountEnsureTables
  \/ MountLoadSettings1
  \/ MountLoadSettings2
  \/ MountLoadHiddenKeys
  \/ LoadDataStart
  \/ LoadDataBalance
  \/ LoadDataRows
  \/ HideStart
  \/ StorageRuns
  \/ HideResume
  \/ UnhideResume
  \/ ToggleShowHiddenAsync

SpecAsync == InitAsync /\ [][NextAsync]_vars

---------------------------------------------------------------------------
(* Refresh cycles on accounts that change: the host changes the balances   *)
(* and signals the change while cycles are in flight.                      *)

\* The sum of the balances after the host synchronised the accounts.
SyncedBalance == 1250000

\* The host changes the balances of sys_accounts.
DataChanged ==
  /\ dbBalance' = IF dbBalance = SyncedBalance THEN 1000000 ELSE SyncedBalance
  /\ UNCHANGED << tz, today, transactions, dbHidden, dbSettings,
                  recurringTransactions, hiddenKeys, currentBalance, projections,
                  isLoading, horizonDays, dangerThreshold, showHidden, cursorIndex, lastToast,
                  mountPc, loads, ops, lastRun, lastOp, detected, probe, newest,
                  items, dbItems, saving >>

NextRefresh ==
  \/ MountStart
  \/ MountEnsureTables
  \/ MountLoadSettings1
  \/ MountLoadSettings2
  \/ MountLoadHiddenKeys
  \/ LoadDataStart
  \/ LoadDataBalance
  \/ LoadDataRows
  \/ DataChanged

SpecRefresh == InitAsync /\ [][NextRefresh]_vars

---------------------------------------------------------------------------
(* The two detection queries on a growing table.  The host imports the     *)
(* transactions in the order of their dates; the view and the scheduling   *)
(* form run their query on the table as it stands.  detected is the last   *)
(* result with the engine's choice of canonical merchants, and is dropped  *)
(* when the table changes.                                                 *)

\* The table holds at most MaxLedger rows.
MaxLedger == 4

\* The dates of the imported rows, in days before Day0.
DaysAgo == {440, 40, 20, 10, 3, 0}

ImportedDescriptions == {"Netflix", "netflix.com", "Rent"}

\* The host appends a row to the table.
Import ==
  \E d \in ImportedDescriptions, ago \in DaysAgo :
    /\ Len(transactions) < MaxLedger
    /\ \A k \in 1..Len(transactions) :
         transactions[k].transaction_date <= Day0 - ago
    /\ transactions' = Append(transactions, Txn(d, -12990, Day0 - ago))
    /\ detected' = NoDetection
    /\ UNCHANGED << tz, today, dbBalance, dbHidden, dbSettings,
                    recurringTransactions, hiddenKeys, currentBalance,
                    projections, isLoading, horizonDays, dangerThreshold,
                    showHidden, cursorIndex, lastToast, mountPc, loads, ops, lastRun, lastOp,
                    probe, newest,
                    items, dbItems, saving >>

\* sdk.query(RECURRING_SQL), as loadData issues it.
DetectRecurring ==
  \E canon \in CanonicalMerchants(BaseTransactions(transactions)) :
    /\ detected' = [query |-> "recurring", canon |-> canon,
                    rows  |-> RecurringQuery(transactions, canon)]
    /\ UNCHANGED << tz, today, transactions, dbBalance, dbHidden, dbSettings,
                    recurringTransactions, hiddenKeys, currentBalance,
                    projections, isLoading, horizonDays, dangerThreshold,
                    showHidden, cursorIndex, lastToast, mountPc, loads, ops, lastRun, lastOp,
                    probe, newest,
                    items, dbItems, saving >>

\* sdk.query(SUGGESTION_SQL), as loadSuggestions issues it.
DetectSuggestions ==
  \E canon \in CanonicalMerchants(BaseTransactions(transactions)) :
    /\ detected' = [query |-> "suggestion", canon |-> canon,
                    rows  |-> SuggestionQuery(transactions, canon)]
    /\ UNCHANGED << tz, today, transactions, dbBalance, dbHidden, dbSettings,
                    recurringTransactions, hiddenKeys, currentBalance,
                    projections, isLoading, horizonDays, dangerThreshold,
                    showHidden, cursorIndex, lastToast, mountPc, loads, ops, lastRun, lastOp,
                    probe, newest,
                    items, dbItems, saving >>

\* An empty table, before the view is mounted.
InitDetect ==
  /\ tz = 0
  /\ today = Day0
  /\ transactions = << >>
  /\ dbBalance = 0
  /\ dbHidden = {}
  /\ dbSettings = [horizonDays |-> 0, dangerThreshold |-> 0]
  /\ InitView

NextDetect ==
  \/ Import
  \/ DetectRecurring
  \/ DetectSuggestions

SpecDetect == InitDetect /\ [][NextDetect]_vars

---------------------------------------------------------------------------
(* The view on a table where one merchant is detected at two amounts.      *)

\* A weekly expense whose price rose from 12.99 to 15.99 three weeks ago,
\* and a weekly income.
RepricedLedger ==
  << Txn("Netflix", -12990, Day0 - 41), Txn("Netflix", -12990, Day0 - 34),
     Txn("Netflix", -12990, Day0 - 27), Txn("Netflix", -15990, Day0 - 20),
     Txn("Payroll", 120004, Day0 - 18), Txn("Netflix", -15990, Day0 - 13),
     Txn("Payroll", 120004, Day0 - 11), Txn("Netflix", -15990, Day0 - 6),
     Txn("Payroll", 120004, Day0 - 4) >>

InitKeys ==
  /\ tz = 0
  /\ today = Day0
  /\ transactions = RepricedLedger
  /\ dbBalance = 1000000
  /\ dbHidden \in HiddenTables
  /\ dbSettings \in SavedSettings
  /\ InitView

SpecKeys == InitKeys /\ [][Next]_vars

---------------------------------------------------------------------------
(* The view on a table with or without a recurring pattern.                *)

\* Rent paid once: no pattern is detected.
OnceLedger == << Txn("Rent", -900000, Day0 - 9) >>

InitHorizon ==
  /\ tz = 0
  /\ today = Day0
  /\ transactions \in {OnceLedger, WeeklyLedger}
  /\ dbBalance = 1000000
  /\ dbHidden \in HiddenTables
  /\ dbSettings \in SavedSettings
  /\ InitView

SpecHorizon == InitHorizon /\ [][Next]_vars

---------------------------------------------------------------------------
(* The planner view: saveNewItem and loadItems.  A date is the record of    *)
(* its year, its month from 0 and its day; a date string YYYY-MM-DD is the *)
(* number YYYYMMDD.                                                        *)

\* The year of the starting month entered in the form.
StartYear == 2026

\* The table holds fewer than MaxItems rows when a call of saveNewItem starts.
MaxItems == 2

\* The number of days of month m (from 0) of year y.
DaysInMonth(y, m) ==
  IF m = 1
  THEN IF (y % 4 = 0 /\ y % 100 # 0) \/ y % 400 = 0 THEN 29 ELSE 28
  ELSE IF m \in {3, 5, 8, 10} THEN 30 ELSE 31

\* getDateForMonth(year, month, dayOfMonth): local midnight of that day.
GetDateForMonth(year, month, dayOfMonth) ==
  [y |-> year, m |-> month,
   d |-> IF dayOfMonth = 0 THEN DaysInMonth(year, month) ELSE dayOfMonth]

\* date.toISOString().split('T')[0] of a local midnight: east of UTC it is
\* the day before.
DateString(date, zone) ==
  LET utc == IF zone <= 0 THEN date
             ELSE IF date.d > 1 THEN [date EXCEPT !.d = @ - 1]
             ELSE IF date.m > 0
                  THEN [y |-> date.y, m |-> date.m - 1,
                        d |-> DaysInMonth(date.y, date.m - 1)]
                  ELSE [y |-> date.y - 1, m |-> 11, d |-> 31]
  IN  utc.y * 10000 + (utc.m + 1) * 100 + utc.d

\* monthIncrement of saveNewItem.
MonthIncrement(frequency) ==
  IF frequency = "monthly" THEN 1 ELSE IF frequency = "quarterly" THEN 3 ELSE 12

\* Math.ceil(formDurationMonths / monthIncrement)
MaxOccurrences(durationMonths, frequency) ==
  (durationMonths + MonthIncrement(frequency) - 1) \div MonthIncrement(frequency)

\* generateId(): an identifier no row and no call in flight holds.
GenerateId(used) == Max(used \cup {0}) + 1

\* The identifiers of the rows of the table, as rows and as series.
UsedIds ==
  ({ r.id : r \in dbItems } \cup { r.series_id : r \in dbItems }) \ {NullNumber}

\* The rows of a SELECT ... ORDER BY date over the set S of rows: every
\* order by date, rows of one date in any order.
RECURSIVE OrderByItemDate(_)
OrderByItemDate(S) ==
  IF S = {} THEN { << >> }
  ELSE UNION { { << r >> \o rest : rest \in OrderByItemDate(S \ {r}) } :
               r \in { x \in S : \A z \in S : x.date <= z.date } }

\* What the form of the add modal holds when Add is clicked.
FormInputs ==
  [description    : {"", "Gym"},
   scheduleType   : {"once", "recurring"},
   frequency      : {"monthly", "quarterly"},
   durationMonths : {3, 6},
   dayOfMonth     : {0, 15},
   startMonth     : {11}]

\* The INSERT of saveNewItem that is awaited: the row it carries.
PendingRow(call) ==
  [id |-> call.id, series_id |-> call.series_id,
   description |-> call.description, amount |-> call.amount,
   date |-> call.date]

\* saveNewItem from the click on Add to its first await, or to its return
\* when the description is empty.  formDate, the date entered for a single item,
\* is the 15th of the starting month.
SaveNewItemStart ==
  /\ saving.pc \in {"none", "done"}
  /\ Cardinality(dbItems) < MaxItems
  /\ \E form \in FormInputs :
       IF form.description = ""
       THEN /\ lastToast' = "error"
            /\ UNCHANGED saving
       ELSE /\ UNCHANGED lastToast
            /\ saving'
                 = IF form.scheduleType = "once"
                   THEN [pc |-> "insert", recurring |-> FALSE,
                         series_id |-> NullNumber,
                         id |-> GenerateId(UsedIds),
                         description |-> form.description, amount |-> -25000,
                         year |-> StartYear, month |-> form.startMonth,
                         increment |-> 0, dayOfMonth |-> form.dayOfMonth,
                         count |-> 0, maxOccurrences |-> 1,
                         date |-> DateString(GetDateForMonth(StartYear,
                                    form.startMonth, 15), 0)]
                   ELSE LET seriesId == GenerateId(UsedIds)
                        IN  [pc |-> "insert", recurring |-> TRUE,
                             series_id |-> seriesId,
                             id |-> GenerateId(UsedIds \cup {seriesId}),
                             description |-> form.description,
                             amount |-> -25000,
                             year |-> StartYear, month |-> form.startMonth,
                             increment |-> MonthIncrement(form.frequency),
                             dayOfMonth |-> form.dayOfMonth,
                             count |-> 0,
                             maxOccurrences |->
                               MaxOccurrences(form.durationMonths, form.frequency),
                             date |-> DateString(GetDateForMonth(StartYear,
                                        form.startMonth, form.dayOfMonth), tz)]
  /\ UNCHANGED << tz, today, transactions, dbBalance, dbHidden, dbSettings,
                  recurringTransactions, hiddenKeys, currentBalance, projections,
                  isLoading, horizonDays, dangerThreshold, showHidden,
                  cursorIndex, mountPc, loads, ops, lastRun, lastOp, detected,
                  probe, newest, items, dbItems >>

\* The awaited INSERT runs and saveNewItem goes on to its next await, or the
\* INSERT throws and the catch block reports.
SaveNewItemInsert ==
  /\ saving.pc = "insert"
  /\ \E ok \in BOOLEAN :
       IF ok
       THEN LET month == saving.month + saving.increment
                year  == saving.year + (month \div 12)
            IN  /\ dbItems' = dbItems \cup {PendingRow(saving)}
                /\ saving'
                     = IF saving.count + 1 < saving.maxOccurrences
                       THEN [saving EXCEPT
                               !.count = @ + 1,
                               !.month = month % 12,
                               !.year  = year,
                               !.id    = GenerateId(UsedIds \cup
                                           {saving.id, saving.series_id}),
                               !.date  = DateString(GetDateForMonth(year,
                                           month % 12, saving.dayOfMonth), tz)]
                       ELSE [saving EXCEPT !.count = @ + 1, !.pc = "load"]
                /\ UNCHANGED lastToast
       ELSE /\ saving' = [saving EXCEPT !.pc = "done"]
            /\ lastToast' = "error"
            /\ UNCHANGED dbItems
  /\ UNCHANGED << tz, today, transactions, dbBalance, dbHidden, dbSettings,
                  recurringTransactions, hiddenKeys, currentBalance, projections,
                  isLoading, horizonDays, dangerThreshold, showHidden,
                  cursorIndex, mountPc, loads, ops, lastRun, lastOp, detected,
                  probe, newest, items >>

\* The query of loadItems returns or throws (loadItems keeps its errors to
\* itself); saveNewItem closes the modal and reports the item as added.
SaveNewItemLoadItems ==
  /\ saving.pc = "load"
  /\ \E ok \in BOOLEAN :
       IF ok THEN items' \in OrderByItemDate(dbItems) ELSE UNCHANGED items
  /\ saving' = [saving EXCEPT !.pc = "done"]
  /\ lastToast' = "success"
  /\ UNCHANGED << tz, today, transactions, dbBalance, dbHidden, dbSettings,
                  recurringTransactions, hiddenKeys, currentBalance, projections,
                  isLoading, horizonDays, dangerThreshold, showHidden,
                  cursorIndex, mountPc, loads, ops, lastRun, lastOp, detected,
                  probe, newest, dbItems >>

\* The planner view on an empty table of items.
InitItems ==
  /\ tz \in Zones
  /\ today = Day0
  /\ transactions = << >>
  /\ dbBalance = 0
  /\ dbHidden = {}
  /\ dbSettings = [horizonDays |-> 0, dangerThreshold |-> 0]
  /\ InitView

NextItems ==
  \/ SaveNewItemStart
  \/ SaveNewItemInsert
  \/ SaveNewItemLoadItems

SpecItems == InitItems /\ [][NextItems]_vars

---------------------------------------------------------------------------
(* The cursor of the list: the keys j / ArrowDown and k / ArrowUp, a click  *)
(* on a row, and the handlers that change the list.                        *)

\* The $effect of lines 499-503 after the cursor was set to c.
CursorInBounds(c) ==
  IF c >= Len(VisibleTransactions)
  THEN Max({0, Len(VisibleTransactions) - 1}) ELSE c

\* handleKeyDown on "j" or "ArrowDown", lines 458-461.
KeyDown ==
  /\ mountPc = "done"
  /\ cursorIndex'
       = CursorInBounds(Min({cursorIndex + 1, Len(VisibleTransactions) - 1}))
  /\ UNCHANGED << tz, today, transactions, dbBalance, dbHidden, dbSettings,
                  recurringTransactions, hiddenKeys, currentBalance, projections,
                  isLoading, horizonDays, dangerThreshold, showHidden, lastToast,
                  mountPc, loads, ops, lastRun, lastOp, detected, probe, newest,
                  items, dbItems, saving >>

\* handleKeyDown on "k" or "ArrowUp", lines 462-466.
KeyUp ==
  /\ mountPc = "done"
  /\ cursorIndex' = CursorInBounds(Max({cursorIndex - 1, 0}))
  /\ UNCHANGED << tz, today, transactions, dbBalance, dbHidden, dbSettings,
                  recurringTransactions, hiddenKeys, currentBalance, projections,
                  isLoading, horizonDays, dangerThreshold, showHidden, lastToast,
                  mountPc, loads, ops, lastRun, lastOp, detected, probe, newest,
                  items, dbItems, saving >>

\* onclick={() => cursorIndex = i} on row i of the list, line 627.
ClickRow ==
  /\ mountPc = "done"
  /\ \E i \in 0..(Len(VisibleTransactions) - 1) :
       cursorIndex' = CursorInBounds(i)
  /\ UNCHANGED << tz, today, transactions, dbBalance, dbHidden, dbSettings,
                  recurringTransactions, hiddenKeys, currentBalance, projections,
                  isLoading, horizonDays, dangerThreshold, showHidden, lastToast,
                  mountPc, loads, ops, lastRun, lastOp, detected, probe, newest,
                  items, dbItems, saving >>

\* The view is opened in one timezone with the default settings.
InitCursor ==
  /\ tz = 0
  /\ today = Day0
  /\ \E db \in Databases : transactions = db.transactions /\ dbBalance = db.balance
  /\ dbHidden \in HiddenTables
  /\ dbSettings = [horizonDays |-> MaxHorizon, dangerThreshold |-> 0]
  /\ InitView

NextCursor ==
  \/ Mount
  \/ LoadData
  \/ HideTransaction
  \/ UnhideTransaction
  \/ ToggleShowHidden
  \/ KeyDown
  \/ KeyUp
  \/ ClickRow

SpecCursor == InitCursor /\ [][NextCursor]_vars

---------------------------------------------------------------------------
(* Overlapping calls of hideTransaction and unhideTransaction on a view    *)
(* that was mounted without a failure and is at rest: the list and the     *)
(* exclusion set were read from the tables, and no loadData call follows.  *)

\* At most MaxOverlap calls of hideTransaction and unhideTransaction are in
\* flight.
MaxOverlap == 2

\* The view after onMount ran to its end with every query answered.
InitOverlap ==
  /\ tz = 0
  /\ today = Day0
  /\ transactions = WeeklyLedger
  /\ dbBalance = 1000000
  /\ dbHidden \in HiddenTables
  /\ dbSettings = [horizonDays |-> MaxHorizon, dangerThreshold |-> 950000]
  /\ horizonDays = LoadSettings("ok").horizonDays
  /\ dangerThreshold = LoadSettings("ok").dangerThreshold
  /\ hiddenKeys = dbHidden \ {Null, ""}
  /\ currentBalance = LoadedBalance
  /\ \E rows \in RecurringRows :
       recurringTransactions = MapRows(rows, hiddenKeys, today, tz)
  /\ projections = GenerateProjections(recurringTransactions, hiddenKeys,
                                       currentBalance, horizonDays,
                                       dangerThreshold, today, tz)
  /\ lastRun = [ran |-> TRUE, list |-> recurringTransactions,
                hidden |-> hiddenKeys, balance |-> currentBalance,
                horizon |-> horizonDays, threshold |-> dangerThreshold,
                today |-> today, again |-> FALSE]
  /\ isLoading = FALSE
  /\ showHidden = FALSE
  /\ cursorIndex = 0
  /\ lastToast = "none"
  /\ mountPc = "done"
  /\ loads = << >>
  /\ ops = {}
  /\ lastOp = NoOp
  /\ detected = NoDetection
  /\ probe = NoProbe
  /\ newest = NoCycle
  /\ items = << >>
  /\ dbItems = {}
  /\ saving = NoSave

HideStartOverlapping == HideStartUpTo(MaxOverlap)

NextOverlap ==
  \/ HideStartOverlapping
  \/ StorageRuns
  \/ HideResume
  \/ UnhideResume
  \/ ToggleShowHiddenAsync

SpecOverlap == InitOverlap /\ [][NextOverlap]_vars

---------------------------------------------------------------------------
(* The two detection queries on tables of RowsLen weekly rows, drawn from   *)
(* descriptions and amounts of several buckets.                            *)

\* The tables hold RowsLen rows.
RowsLen == 4

\* Amounts of two buckets; -12994 is normalised to the bucket of -12990.
CleanAmounts == {-12990, -12994, -50000}

\* The tables of RowsLen rows, one a week up to Day0, over the given
\* descriptions and amounts.
RowLedgers(descriptions, amounts) ==
  { [k \in 1..RowsLen |-> Txn(f[k][1], f[k][2], Day0 - 7 * (RowsLen - k))] :
      f \in [1..RowsLen -> descriptions \X amounts] }

\* A table of rows, before the view is mounted.
InitRows ==
  /\ tz = 0
  /\ today = Day0
  /\ transactions \in RowLedgers(ImportedDescriptions, CleanAmounts)
  /\ dbBalance = 0
  /\ dbHidden = {}
  /\ dbSettings = [horizonDays |-> 0, dangerThreshold |-> 0]
  /\ InitView

NextRows ==
  \/ DetectRecurring
  \/ DetectSuggestions

SpecRows == InitRows /\ [][NextRows]_vars

\* Rows the host may hold with a description or an amount missing.
InitNulls ==
  /\ tz = 0
  /\ today = Day0
  /\ transactions \in RowLedgers({"Netflix", "", Null}, {-12990, NullNumber})
  /\ dbBalance = 0
  /\ dbHidden = {}
  /\ dbSettings = [horizonDays |-> 0, dangerThreshold |-> 0]
  /\ InitView

SpecNulls == InitNulls /\ [][NextRows]_vars

---------------------------------------------------------------------------
(* The functions of the row mappings, applied to inputs of their own.       *)

\* The classifiers are applied to the intervals 0..MaxInterval.
MaxInterval == 120

\* Both frequency chains on one rounded interval.
Classify ==
  \E n \in 0..MaxInterval :
    /\ probe' = [fn |-> "frequency", interval_days |-> n,
                 frequency |-> Frequency(n),
                 suggested |-> SuggestionFrequency(n)]
    /\ UNCHANGED << tz, today, transactions, dbBalance, dbHidden, dbSettings,
                    recurringTransactions, hiddenKeys, currentBalance,
                    projections, isLoading, horizonDays, dangerThreshold,
                    showHidden, cursorIndex, lastToast, mountPc, loads, ops, lastRun, lastOp,
                    detected, newest,
                    items, dbItems, saving >>

\* The next date is predicted for last dates up to MaxAgo days ago.
MaxAgo == 45

\* The rounded intervals the next date is predicted for.
IntervalInputs == {5, 7, 30}

\* The next expected date of loadData on one last date and rounded interval.
PredictNext ==
  \E ago \in 0..MaxAgo, n \in IntervalInputs :
    /\ probe' = [fn |-> "nextDate", last_date |-> today - ago,
                 interval_days |-> n,
                 next_date |-> NextDate(today - ago, n, today, tz)]
    /\ UNCHANGED << tz, today, transactions, dbBalance, dbHidden, dbSettings,
                    recurringTransactions, hiddenKeys, currentBalance,
                    projections, isLoading, horizonDays, dangerThreshold,
                    showHidden, cursorIndex, lastToast, mountPc, loads, ops, lastRun, lastOp,
                    detected, newest,
                    items, dbItems, saving >>

\* The view in any timezone, before it is mounted.
InitPure ==
  /\ tz \in Zones
  /\ today = Day0
  /\ transactions = << >>
  /\ dbBalance = 0
  /\ dbHidden = {}
  /\ dbSettings = [horizonDays |-> 0, dangerThreshold |-> 0]
  /\ InitView

NextPure ==
  \/ Classify
  \/ PredictNext

SpecPure == InitPure /\ [][NextPure]_vars

---------------------------------------------------------------------------
(* Derived values of the view.                                             *)

\* The filter of expenseTransactions with the visibility filter alone.
ExpenseTransactionsVisible ==
  SelectSeq(VisibleTransactions, LAMBDA t : ~t.is_income)

\* incomeTransactions, lines 50-52.
IncomeTransactions ==
  SelectSeq(VisibleTransactions, LAMBDA t : t.is_income /\ ~t.is_hidden)

\* expenseTransactions, lines 54-56.
ExpenseTransactions ==
  SelectSeq(VisibleTransactions, LAMBDA t : ~t.is_income /\ ~t.is_hidden)

\* A number n / d, d > 0, as the pair of its numerator and denominator; the
\* view's sums are kept exact this way.
Ratio(n, d) == [num |-> n, den |-> d]

\* sum + x of a reduce.
RatioPlus(sum, x) ==
  Ratio(sum.num * x.den + x.num * sum.den, sum.den * x.den)

RatioEq(x, y) == x.num * y.den = y.num * x.den

\* terms.reduce((sum, x) => sum + x, sum), from the left.
RECURSIVE Reduce(_, _)
Reduce(terms, sum) ==
  IF terms = << >> THEN sum
  ELSE Reduce(Tail(terms), RatioPlus(sum, Head(terms)))

\* monthlyIncome, lines 58-60.
MonthlyIncome ==
  Reduce([k \in 1..Len(IncomeTransactions) |->
            Ratio(IncomeTransactions[k].amount * 30,
                  IncomeTransactions[k].interval_days)],
         Ratio(0, 1))

\* monthlyExpenses, lines 62-64.
MonthlyExpenses ==
  Reduce([k \in 1..Len(ExpenseTransactions) |->
            Ratio(Abs(ExpenseTransactions[k].amount) * 30,
                  ExpenseTransactions[k].interval_days)],
         Ratio(0, 1))

\* monthlyNet, line 66.
MonthlyNet ==
  RatioPlus(MonthlyIncome, Ratio(- MonthlyExpenses.num, MonthlyExpenses.den))

\* projectedBalance, line 68.
ProjectedBalance ==
  IF Len(projections) > 0 THEN projections[Len(projections)].balance
  ELSE currentBalance

\* The balance of the first projected day in place of the minimum.
LowestBalanceFirstDay ==
  IF Len(projections) > 0 THEN projections[1].balance ELSE currentBalance

\* lowestBalance, line 72.
LowestBalance ==
  IF Len(projections) > 0
  THEN Min({ projections[i].balance : i \in 1..Len(projections) })
  ELSE currentBalance

---------------------------------------------------------------------------
(* Properties of generateProjections.  lastRun holds what the last run     *)
(* read; projections holds what it produced.                               *)

\* The patterns of the last run whose merchant_key was not in the exclusion
\* set, by their index in the list.
RunActive ==
  { p \in 1..Len(lastRun.list) : lastRun.list[p].merchant_key \notin lastRun.hidden }

\* Day d is next_date + k * interval_days for some integer k >= 0.
LandsOn(P, d) ==
  d >= P.next_date /\ (d - P.next_date) % P.interval_days = 0

\* The entries the patterns of index set S landing on day d contribute, in
\* the order of the list.
RECURSIVE LandingEntries(_, _, _)
LandingEntries(list, S, d) ==
  IF list = << >> THEN << >>
  ELSE LET P    == Head(list)
           rest == LandingEntries(Tail(list), { p - 1 : p \in S \ {1} }, d)
       IN  IF 1 \in S /\ LandsOn(P, d)
           THEN << [description |-> P.description, amount |-> P.amount] >> \o rest
           ELSE rest

DayAmounts(day) == SumSeq([k \in 1..Len(day.transactions) |-> day.transactions[k].amount])

\* C1: in every run, for every day offset i in 0..horizon, the occurrences of
\* day today + i are exactly those of the non-hidden patterns P with
\* today + i = P.next_date + k * P.interval_days for some k >= 0, one entry
\* per pattern.
C1_LandsIffOnSchedule ==
  lastRun.ran =>
    \A i \in 0..lastRun.horizon :
      /\ i + 1 <= Len(projections)
      /\ projections[i + 1].transactions
           = LandingEntries(lastRun.list, RunActive, lastRun.today + i)

\* C2: the balance is a running sum: day 0's balance is the starting balance
\* plus the amounts landing on day 0, and day i's balance is day i-1's
\* balance plus the amounts landing on day i.
C2_RunningBalance ==
  lastRun.ran =>
    \A i \in 1..Len(projections) :
      projections[i].balance
        = (IF i = 1 THEN lastRun.balance ELSE projections[i - 1].balance)
          + DayAmounts(projections[i])

C2_Witness ==
  /\ lastRun.ran
  /\ \E i, j \in 1..Len(projections) :
       /\ i < j
       /\ DayAmounts(projections[i]) # 0
       /\ DayAmounts(projections[j]) # 0
       /\ projections[j].balance # lastRun.balance + DayAmounts(projections[j])

\* C3: every run yields horizon + 1 days, dated today, today + 1, ...,
\* today + horizon.
C3_OneDayPerDate ==
  lastRun.ran =>
    /\ Len(projections) = lastRun.horizon + 1
    /\ \A i \in 1..Len(projections) : projections[i].date = lastRun.today + i - 1

\* The list with the patterns of the exclusion set removed.
WithoutHidden(list, hidden) ==
  SelectSeq(list, LAMBDA t : t.merchant_key \notin hidden)

\* C4: no day of a run holds an entry of a pattern of the exclusion set, and
\* the run yields what it yields on the list without these patterns.
C4_HiddenNeverContributes ==
  lastRun.ran =>
    /\ \A i \in 1..Len(projections) :
         /\ Len(projections[i].transactions) <= Cardinality(RunActive)
         /\ \A k \in 1..Len(projections[i].transactions) :
              \E p \in RunActive :
                projections[i].transactions[k]
                  = [description |-> lastRun.list[p].description,
                     amount      |-> lastRun.list[p].amount]
    /\ projections
         = GenerateProjections(WithoutHidden(lastRun.list, lastRun.hidden), {},
                               lastRun.balance, lastRun.horizon,
                               lastRun.threshold, lastRun.today, tz)

\* A run in which a pattern of the exclusion set would have landed.
C4_Witness ==
  /\ lastRun.ran
  /\ RunActive # {}
  /\ \E p \in 1..Len(lastRun.list) :
       /\ lastRun.list[p].merchant_key \in lastRun.hidden
       /\ projections
            # GenerateProjections(lastRun.list, {}, lastRun.balance,
                                  lastRun.horizon, lastRun.threshold,
                                  lastRun.today, tz)

\* The run of the scenario: starting balance 1000.00, one pattern, which is
\* not hidden, of amount -50.00, next_date today and interval 7; horizon 14.
C5_Scenario ==
  /\ lastRun.ran
  /\ lastRun.balance = 1000000
  /\ lastRun.horizon = 14
  /\ Len(lastRun.list) = 1
  /\ RunActive = {1}
  /\ lastRun.list[1].amount = -50000
  /\ lastRun.list[1].next_date = lastRun.today
  /\ lastRun.list[1].interval_days = 7

\* C5: in the scenario the occurrences are exactly on days 0, 7 and 14, each
\* of -50.00, and the ending and the lowest balance are 850.00.
C5_WeeklyScenario ==
  C5_Scenario =>
    /\ Len(projections) = 15
    /\ \A i \in 0..14 :
         IF i \in {0, 7, 14}
         THEN /\ Len(projections[i + 1].transactions) = 1
              /\ projections[i + 1].transactions[1].amount = -50000
         ELSE projections[i + 1].transactions = << >>
    /\ ProjectedBalance = 850000
    /\ LowestBalance = 850000

\* C6: a day is flagged exactly when its balance is strictly below the
\* threshold the run read.
C6_DangerFlag ==
  lastRun.ran =>
    \A i \in 1..Len(projections) :
      projections[i].is_danger <=> projections[i].balance < lastRun.threshold

\* A run with a day whose balance equals the threshold and a day below it.
C6_Witness ==
  /\ lastRun.ran
  /\ lastRun.threshold # 0
  /\ \E i, j \in 1..Len(projections) :
       /\ projections[i].balance = lastRun.threshold
       /\ ~projections[i].is_danger
       /\ projections[j].is_danger

\* C7: after a hideTransaction that succeeded on a key and an
\* unhideTransaction that succeeded on the same key next, nothing else having
\* changed what the view shows in between, the pattern list, the exclusion
\* set and the projection are those of before the hide.
C7_HideUnhideRoundTrip ==
  lastOp.op = "hide-unhide" =>
    << recurringTransactions, hiddenKeys, projections >> = lastOp.pre

\* C8: the step in which hideTransaction or unhideTransaction resumes after
\* a failed write reports an error and leaves the pattern list, the
\* exclusion set and the projection as they were.
C8_FailedWriteLeavesMemory ==
  [][\A o \in ops :
       (o.st = "err" /\ o \notin ops') =>
         /\ lastToast' = "error"
         /\ UNCHANGED << recurringTransactions, hiddenKeys, projections >>]_vars

\* A failed unhide has resumed on a list whose pattern is still hidden, after
\* an earlier report of success.
C8_Witness ==
  /\ lastOp.op = "unhide-failed"
  /\ lastToast = "error"
  /\ lastOp.key \in hiddenKeys
  /\ \E k \in 1..Len(recurringTransactions) :
       /\ recurringTransactions[k].merchant_key = lastOp.key
       /\ recurringTransactions[k].is_hidden
  /\ lastOp.pre = << recurringTransactions, hiddenKeys, projections >>

\* The groups of merchant_intervals on the table, under the choice of
\* canonical merchants of the last query.
DetectedGroups ==
  IF detected.query = "none" THEN {}
  ELSE StatsGroups(GroupedTransactions(BaseTransactions(transactions),
                                       detected.canon))

\* C9: every row a detection query returns has an average interval of at
\* least 5 and at most 400 days, and an occurrence count of at least 3 for
\* the query of the view and of at least 2 for the query of suggestions.
C9_DetectedWithinBounds ==
  \A k \in 1..Len(detected.rows) :
    LET s == detected.rows[k] IN
    /\ 5 * s.cnt <= s.sum_interval
    /\ s.sum_interval <= 400 * s.cnt
    /\ 5 <= RoundedInterval(s) /\ RoundedInterval(s) <= 400
    /\ detected.query = "recurring" => s.occurrence_count >= 3
    /\ detected.query = "suggestion" => s.occurrence_count >= 2

\* The view's query returned a pattern of exactly three occurrences.
C9_Witness ==
  /\ detected.query = "recurring"
  /\ \E k \in 1..Len(detected.rows) : detected.rows[k].occurrence_count = 3

\* The view's query rejected a group of two occurrences whose average
\* interval is within the range.
C9_WitnessRejected ==
  /\ detected.query = "recurring"
  /\ \E s \in DetectedGroups :
       /\ s.occurrence_count = 2
       /\ AvgIntervalInRange(s)
       /\ s \notin Range(detected.rows)

\* A suggestion of two occurrences was returned while a group of average
\* interval below 5 or above 400 was rejected.
C9_WitnessSuggestion ==
  /\ detected.query = "suggestion"
  /\ \E k \in 1..Len(detected.rows) : detected.rows[k].occurrence_count = 2
  /\ \E s \in DetectedGroups :
       /\ s \notin Range(detected.rows)
       /\ \/ s.sum_interval < 5 * s.cnt
          \/ s.sum_interval > 400 * s.cnt

\* The groups of the table whose consecutive gaps are 30 and 10 days, in
\* either order of the aggregate: two intervals of sum 40 and sum of
\* squares 1000.
GapsThirtyTen ==
  { s \in DetectedGroups :
      s.cnt = 2 /\ s.sum_interval = 40 /\ s.sumsq_interval = 1000 }

\* C10: a group of gaps 30 and 10 (average 20) is not returned by the query
\* with the consistency filter, and is returned by the query without it,
\* where it is classified monthly.
C10_InconsistentGaps ==
  \A s \in GapsThirtyTen :
    /\ s.sum_interval = 20 * s.cnt
    /\ detected.query = "recurring" => s \notin Range(detected.rows)
    /\ detected.query = "suggestion" =>
         /\ s \in Range(detected.rows)
         /\ Frequency(RoundedInterval(s)) = "monthly"

\* The view's query ran on a table with a group of gaps 30 and 10.
C10_Witness ==
  /\ detected.query = "recurring"
  /\ GapsThirtyTen # {}

\* The suggestions query ran on a table with a group of gaps 30 and 10.
C10_WitnessSuggestion ==
  /\ detected.query = "suggestion"
  /\ GapsThirtyTen # {}

\* The rows of grouped_transactions of the last query.
DetectedGrouped ==
  GroupedTransactions(BaseTransactions(transactions), detected.canon)

\* The partitions of the last query that hold a single transaction.
LonePartitions ==
  IF detected.query = "none" THEN {}
  ELSE { q \in Partitions(DetectedGrouped) :
           Cardinality(Members(DetectedGrouped, q)) = 1 }

\* C11: no row returned by either query stands for a (merchant_key,
\* norm_amount) partition of a single transaction, and every returned row
\* aggregates at least one interval (at least two under the query that
\* filters on the standard deviation), so that its average and the deviation
\* the query compares are defined.
C11_LoneTransactionNeverDetected ==
  \A k \in 1..Len(detected.rows) :
    LET s == detected.rows[k] IN
    /\ << s.merchant_key, s.norm_amount >> \notin LonePartitions
    /\ s.cnt >= 1
    /\ s.occurrence_count >= 2
    /\ detected.query = "recurring" => s.cnt >= 2

\* The suggestions query returned a row on a table that also holds a
\* partition of a single transaction.
C11_Witness ==
  /\ detected.query = "suggestion"
  /\ Len(detected.rows) >= 1
  /\ LonePartitions # {}

\* The view's query returned a row on a table that also holds a partition of
\* a single transaction.
C11_WitnessRecurring ==
  /\ detected.query = "recurring"
  /\ Len(detected.rows) >= 1
  /\ LonePartitions # {}

\* The class the specification gives a rounded interval.
FrequencyClass(n) ==
  IF n <= 8 THEN "weekly"
  ELSE IF n \in 9..16 THEN "biweekly"
  ELSE IF n \in 17..35 THEN "monthly"
  ELSE IF n \in 36..100 THEN "quarterly"
  ELSE "annual"

\* C12: the view's classifier gives every rounded interval the class of the
\* table (<= 8 weekly, 9..16 biweekly, 17..35 monthly, 36..100 quarterly,
\* above 100 annual), and the classifier of suggestions gives the same class.
C12_FrequencyClasses ==
  probe.fn = "frequency" =>
    /\ probe.frequency = FrequencyClass(probe.interval_days)
    /\ probe.suggested = probe.frequency
    /\ probe.interval_days = 8   => probe.frequency = "weekly"
    /\ probe.interval_days = 9   => probe.frequency = "biweekly"
    /\ probe.interval_days = 16  => probe.frequency = "biweekly"
    /\ probe.interval_days = 17  => probe.frequency = "monthly"
    /\ probe.interval_days = 35  => probe.frequency = "monthly"
    /\ probe.interval_days = 36  => probe.frequency = "quarterly"
    /\ probe.interval_days = 100 => probe.frequency = "quarterly"
    /\ probe.interval_days = 101 => probe.frequency = "annual"

\* The classifiers were applied to the interval 101.
C12_Witness ==
  /\ probe.fn = "frequency"
  /\ probe.interval_days = 101
  /\ probe.frequency = "annual"

\* C13: the predicted next date is not before today, and is the last date
\* plus k intervals for the smallest k >= 1 that is not before today.
C13_NextDateFirstNotPast ==
  probe.fn = "nextDate" =>
    /\ probe.next_date >= today
    /\ \E k \in 1..(MaxAgo + 1) :
         /\ probe.next_date = probe.last_date + k * probe.interval_days
         /\ k = 1 \/ probe.last_date + (k - 1) * probe.interval_days < today

\* C13, its scenario: for a last date 40 days ago and an interval of 30 days
\* the predicted next date is today + 20.
C13_ScenarioFortyThirty ==
  (/\ probe.fn = "nextDate"
   /\ probe.last_date = today - 40
   /\ probe.interval_days = 30) => probe.next_date = today + 20

\* The rows of base_transactions of the last query.
DetectedBase == BaseTransactions(transactions)

\* C14: every row of base_transactions is in exactly one partition; its
\* merchant_key is the canonical description of its norm_amount when the
\* similarity of its upper-cased description to it is above 0.7 and its own
\* upper-cased description otherwise; the rows of a partition share their
\* norm_amount; rows of one norm_amount and one description share their
\* partition.
C14_OneClusterPerTransaction ==
  detected.query # "none" =>
    LET b == DetectedBase
        g == DetectedGrouped
    IN  /\ Len(g) = Len(b)
        /\ \A i \in 1..Len(b) :
             LET c == detected.canon[b[i].norm_amount] IN
             /\ g[i].merchant_group
                  = IF JaroWinklerSimilarity(b[i].upper_desc, c) > 700
                    THEN c ELSE b[i].upper_desc
             /\ Cardinality({ q \in Partitions(g) : i \in Members(g, q) }) = 1
        /\ \A q \in Partitions(g) : \A i, j \in Members(g, q) :
             g[i].norm_amount = g[j].norm_amount
        /\ \A i, j \in 1..Len(b) :
             (b[i].norm_amount = b[j].norm_amount /\ b[i].upper_desc = b[j].upper_desc)
               => \E q \in Partitions(g) : {i, j} \subseteq Members(g, q)

\* A query ran on a table of two buckets in which one row took a canonical
\* description other than its own and one row kept its own, other than the
\* canonical one.
C14_Witness ==
  /\ detected.query # "none"
  /\ Cardinality(NormAmounts(DetectedBase)) = 2
  /\ \E i, j \in 1..Len(DetectedBase) :
       /\ DetectedGrouped[i].merchant_group # DetectedBase[i].upper_desc
       /\ DetectedGrouped[j].merchant_group
            # detected.canon[DetectedBase[j].norm_amount]

\* A query ran on a table in which two rows of one bucket kept the same
\* description, other than the canonical one, and raw amounts that differ.
C14_WitnessShared ==
  /\ detected.query # "none"
  /\ \E j, k \in 1..Len(DetectedBase) :
       /\ j # k
       /\ DetectedBase[j].norm_amount = DetectedBase[k].norm_amount
       /\ DetectedBase[j].amount # DetectedBase[k].amount
       /\ DetectedBase[j].upper_desc = DetectedBase[k].upper_desc
       /\ DetectedGrouped[j].merchant_group
            # detected.canon[DetectedBase[j].norm_amount]

\* C15: the canonical description of every norm_amount is the upper-cased
\* description of its earliest row, the first in the order of the table
\* among the rows of that date.
C15_CanonicalIsFirstEarliest ==
  detected.query # "none" =>
    \A a \in NormAmounts(DetectedBase) :
      detected.canon[a]
        = DetectedBase[Min(EarliestOf(DetectedBase, a))].upper_desc

\* C15, its first half: the canonical description of every norm_amount is
\* the upper-cased description of one of its rows of the earliest date.
C15_CanonicalIsEarliest ==
  detected.query # "none" =>
    \A a \in NormAmounts(DetectedBase) :
      \E i \in EarliestOf(DetectedBase, a) :
        detected.canon[a] = DetectedBase[i].upper_desc

\* A pattern list without its is_hidden flags.
Unflagged(list) ==
  [k \in 1..Len(list) |-> [list[k] EXCEPT !.is_hidden = FALSE]]

\* C16: once every cycle has completed, the most recently triggered one with
\* success, the balance shown is the one that cycle read, the projection
\* was run on that balance, and the patterns are those that cycle computed.
C16_NewestCycleWins ==
  (loads = << >> /\ newest.st = "done") =>
    /\ currentBalance = newest.balance
    /\ lastRun.balance = newest.balance
    /\ Unflagged(recurringTransactions) = Unflagged(newest.list)

\* C17: no run of generateProjections, and so no pattern list, is computed
\* before onMount has read the persisted exclusion set.
C17_ExclusionSetReadFirst ==
  lastRun.ran => mountPc = "done"

\* The pattern lists a successful detection query yields in the current
\* state.
CompleteLists ==
  { MapRows(rows, hiddenKeys, today, tz) : rows \in RecurringRows }

\* C18: the step in which a call of loadData resumes from its detection
\* query either leaves the pattern list as it was and reports an error, or
\* sets it to the complete list of a successful query.
C18_DetectionFailsAsUnit ==
  [][\A n \in 1..Len(loads) :
       (loads[n].pc = "rows" /\ loads' = Without(loads, n)) =>
         \/ /\ recurringTransactions' = recurringTransactions
            /\ lastToast' = "error"
         \/ /\ recurringTransactions' \in CompleteLists
            /\ recurringTransactions' # << >>]_vars

\* The detection query of the latest call failed on a view that shows
\* patterns.
C18_Witness ==
  /\ newest.st = "rowsFailed"
  /\ lastToast = "error"
  /\ recurringTransactions \in CompleteLists
  /\ recurringTransactions # << >>
  /\ ~isLoading

\* A raw transaction without a description or without an amount.
Malformed(t) == t.description \in {Null, ""} \/ t.amount = NullNumber

\* The well-formed transactions of the table of a given normalised amount.
WellFormed(a) ==
  { i \in 1..Len(transactions) :
      ~Malformed(transactions[i]) /\ RoundSql(transactions[i].amount) = a }

\* C19: no returned row stands for a cluster of transactions without an
\* amount or without a description, and its occurrence count is at most the
\* number of well-formed transactions of its normalised amount.
C19_MalformedRowsDropped ==
  \A k \in 1..Len(detected.rows) :
    LET s == detected.rows[k] IN
    /\ s.norm_amount # NullNumber
    /\ s.merchant_key \notin {Null, ""}
    /\ s.occurrence_count <= Cardinality(WellFormed(s.norm_amount))

\* C19, for descriptions: no returned row counts a transaction whose
\* description is NULL or empty.
C19_NoDescriptionDropped ==
  \A k \in 1..Len(detected.rows) :
    LET s == detected.rows[k] IN
    /\ s.merchant_key \notin {Null, ""}
    /\ s.occurrence_count
         <= Cardinality({ i \in 1..Len(transactions) :
                            /\ transactions[i].description \notin {Null, ""}
                            /\ RoundSql(transactions[i].amount) = s.norm_amount })


---------------------------------------------------------------------------
(* Derived balances of the view, lines 68-74.                              *)

\* The balances of the projected days.
ProjectedBalances == { projections[i].balance : i \in 1..Len(projections) }

C20_WitnessRising ==
  /\ lastRun.ran
  /\ Len(projections) > 1
  /\ LowestBalance < ProjectedBalance

\* A loaded view without projected days: both derived values show the
\* account balance.
C20_WitnessEmpty ==
  /\ mountPc = "done"
  /\ Len(projections) = 0
  /\ currentBalance # 0
  /\ ProjectedBalance = currentBalance
  /\ LowestBalance = currentBalance


---------------------------------------------------------------------------
(* Monthly summary, lines 46-66.                                           *)

\* The product of the intervals of the patterns: a common denominator of
\* their 30-day rates.
RECURSIVE IntervalProduct(_)
IntervalProduct(n) ==
  IF n = 0 THEN 1
  ELSE recurringTransactions[n].interval_days * IntervalProduct(n - 1)

\* The sum of amount x 30 / interval_days over the patterns at the positions
\* S among the first n, in units of 1 / IntervalProduct(Len(list)).
RECURSIVE RateSum(_, _)
RateSum(S, n) ==
  IF n = 0 THEN 0
  ELSE LET t == recurringTransactions[n]
       IN  RateSum(S, n - 1)
           + (IF n \in S
              THEN t.amount * 30
                     * (IntervalProduct(Len(recurringTransactions))
                          \div t.interval_days)
              ELSE 0)

NonHidden ==
  { k \in 1..Len(recurringTransactions) : ~recurringTransactions[k].is_hidden }

\* C21: monthly income and monthly expense are the sums of amount x 30 /
\* interval_days over the non-hidden patterns with a positive and with a
\* non-positive amount (the expense shown as a magnitude), monthly net is the
\* signed sum over all non-hidden patterns, and a hidden pattern contributes
\* to none of them, whatever the show-hidden toggle.
C21_MonthlySummary ==
  LET n   == Len(recurringTransactions)
      den == IntervalProduct(n)
      pos == { k \in NonHidden : recurringTransactions[k].amount > 0 }
  IN  /\ RatioEq(MonthlyIncome, Ratio(RateSum(pos, n), den))
      /\ RatioEq(MonthlyExpenses, Ratio(- RateSum(NonHidden \ pos, n), den))
      /\ RatioEq(MonthlyNet, Ratio(RateSum(NonHidden, n), den))

\* The list shows a hidden pattern next to a counted income and a counted
\* expense.
C21_Witness ==
  /\ showHidden
  /\ \E k \in 1..Len(recurringTransactions) :
       /\ recurringTransactions[k].is_hidden
       /\ recurringTransactions[k].amount # 0
  /\ MonthlyIncome.num > 0

\* An income and an expense are both counted.
C21_WitnessExpense ==
  /\ MonthlyIncome.num > 0
  /\ MonthlyExpenses.num > 0


---------------------------------------------------------------------------
(* generateProjections as a function of what it reads, lines 311-360.      *)

---------------------------------------------------------------------------
(* is_hidden and the exclusion set.                                        *)

\* No handler is between its call and its end.
AtRest == mountPc = "done" /\ loads = << >> /\ ops = {}

\* C23: whenever no handler is in flight, is_hidden of every pattern tells
\* whether its merchant_key is in hiddenKeys.
C23_HiddenIsLookup ==
  AtRest =>
    \A k \in 1..Len(recurringTransactions) :
      recurringTransactions[k].is_hidden
        <=> recurringTransactions[k].merchant_key \in hiddenKeys


---------------------------------------------------------------------------
(* The loops over dates: lines 284-286 and 334-344.                        *)

\* The patterns loadData makes of the rows of the last query.
DetectedPatterns == MapRows(detected.rows, {}, today, tz)

\* C24: every detected pattern has a rounded interval of at least 5 days;
\* the loop that moves its next date forward runs at most (today - last
\* date) / interval times, and on every projected day the loop over
\* checkDate advances at most (day - next date) / interval + 1 times.
C24_DateLoopsBounded ==
  \A k \in 1..Len(detected.rows) :
    LET t        == DetectedPatterns[k]
        todayObj == TodayMidnight(today, tz)
        lastObj  == ParseDate(t.last_date)
        nextObj  == SetHoursZero(ParseDate(t.next_date), tz)
    IN  /\ t.interval_days >= 5
        /\ 24 * t.interval_days
             * MoveForwardSteps(AddDays(lastObj, t.interval_days), todayObj,
                                t.interval_days)
           <= Max({0, todayObj - lastObj})
        /\ \A i \in 0..DefaultHorizon :
             LET date == AddDays(todayObj, i)
             IN  24 * t.interval_days
                   * OccursOnSteps(nextObj, date, ToISODate(date), t.interval_days)
                 <= Max({0, date - nextObj}) + 24 * t.interval_days

\* A pattern whose next date was moved forward more than once.
C24_Witness ==
  \E k \in 1..Len(detected.rows) :
    LET t == DetectedPatterns[k]
    IN  MoveForwardSteps(AddDays(ParseDate(t.last_date), t.interval_days),
                         TodayMidnight(today, tz), t.interval_days) > 1

\* A pattern for which the loop over checkDate advances more than once on
\* some projected day.
C24_WitnessProjection ==
  \E k \in 1..Len(detected.rows), i \in 0..DefaultHorizon :
    LET t    == DetectedPatterns[k]
        date == AddDays(TodayMidnight(today, tz), i)
    IN  OccursOnSteps(SetHoursZero(ParseDate(t.next_date), tz), date,
                      ToISODate(date), t.interval_days) > 1


---------------------------------------------------------------------------
(* The exclusion set and the hidden table.                                 *)

\* C25: once no call of hideTransaction or unhideTransaction is in flight,
\* hiddenKeys holds the merchant keys of the hidden table.
C25_MemoryMatchesTable ==
  ops = {} => hiddenKeys = dbHidden \ {Null, ""}


---------------------------------------------------------------------------
(* isLoading and the loadData calls in flight.                             *)

\* C26: isLoading is true while at least one call of loadData is in flight.
C26_LoadingWhileInFlight ==
  loads # << >> => isLoading


---------------------------------------------------------------------------
(* The cursor of the list.                                                 *)

\* C27: the cursor index is at least 0 and at most max(0, n - 1), n being
\* the length of the list shown.
C27_CursorInList ==
  /\ cursorIndex >= 0
  /\ cursorIndex <= Max({0, Len(VisibleTransactions) - 1})

\* The cursor index never lies beyond the last row of the list.
C27_CursorNotBeyondList ==
  cursorIndex <= Max({0, Len(VisibleTransactions) - 1})


---------------------------------------------------------------------------
(* The frame of hideTransaction and unhideTransaction.                     *)

\* The merchant key a step adds to hiddenKeys or removes from it.
ChangedKey ==
  CHOOSE key \in (hiddenKeys \cup hiddenKeys') :
    (key \in hiddenKeys) # (key \in hiddenKeys')

\* C28: a call of hideTransaction or unhideTransaction that succeeds sets
\* is_hidden of every pattern of the merchant key, and of no other pattern,
\* and leaves every other field of every pattern, the balance, the horizon
\* and the threshold as they were.
C28_HideFrame ==
  [][ (mountPc = "done" /\ hiddenKeys' # hiddenKeys) =>
        /\ Len(recurringTransactions') = Len(recurringTransactions)
        /\ \A k \in 1..Len(recurringTransactions) :
             LET t == recurringTransactions[k]
             IN  recurringTransactions'[k]
                 = IF t.merchant_key = ChangedKey
                   THEN [t EXCEPT !.is_hidden = ChangedKey \in hiddenKeys']
                   ELSE t
        /\ \A k \in 1..Len(recurringTransactions) :
             recurringTransactions[k].merchant_key = ChangedKey
               => recurringTransactions[k].is_hidden = (ChangedKey \in hiddenKeys)
        /\ UNCHANGED << currentBalance, horizonDays, dangerThreshold >> ]_vars

\* Two patterns of one merchant key, at different amounts, are hidden next
\* to a pattern of another key that is not.
C28_Witness ==
  /\ lastToast = "info"
  /\ \E j, k, m \in 1..Len(recurringTransactions) :
       LET a == recurringTransactions[j]
           b == recurringTransactions[k]
           c == recurringTransactions[m]
       IN  /\ a.merchant_key = b.merchant_key
           /\ a.amount # b.amount
           /\ a.is_hidden /\ b.is_hidden
           /\ a.merchant_key \in hiddenKeys
           /\ c.merchant_key # a.merchant_key
           /\ ~c.is_hidden


---------------------------------------------------------------------------
(* setHorizon and the length of the projection.                            *)

\* C29: when a call of setHorizon(d) that changes the horizon has ended,
\* the projection has d + 1 days.
C29_HorizonDaysProjected ==
  [][ (mountPc = "done" /\ horizonDays' # horizonDays)
        => Len(projections') = horizonDays' + 1 ]_vars

\* The same for the calls made while the pattern list is not empty.
C29_HorizonDaysProjectedWithPatterns ==
  [][ (mountPc = "done" /\ horizonDays' # horizonDays
         /\ recurringTransactions # << >>)
        => Len(projections') = horizonDays' + 1 ]_vars


---------------------------------------------------------------------------
(* saveNewItem on a recurring schedule.                                    *)

\* The rows of the table that carry the series of the last call.
SavedSeries == { r \in dbItems : r.series_id = saving.series_id }

\* C30: when a call of saveNewItem on a recurring schedule has ended, either
\* every occurrence of the series is in the table under the one series_id
\* and the item list holds the table, or no occurrence of the series is in
\* the table and the item list holds the table.
C30_SeriesAllOrNothing ==
  (saving.pc = "done" /\ saving.recurring) =>
    /\ Cardinality(SavedSeries) \in {0, saving.maxOccurrences}
    /\ Range(items) = dbItems

\* When every INSERT and the query of loadItems succeeded, every occurrence
\* of the series is in the table under the one series_id and the item list
\* holds the table.
C30_SeriesSavedWhole ==
  (saving.pc = "done" /\ saving.recurring /\ lastToast = "success"
     /\ Range(items) = dbItems) =>
    /\ Cardinality(SavedSeries) = saving.maxOccurrences
    /\ saving.count = saving.maxOccurrences

===========================================================================
